---------------------------- MODULE Spec2Model ----------------------------
(***************************************************************************)
(* Modbus RTU master and slave engines (mod_master_rtu.c, mod_slave_rtu.c) *)
(* as state machines.  Every handler of the two engines is one action; the *)
(* handler's body is an operator from the engine record (and its inputs)   *)
(* to the engine record after the call, its return value and the driver /  *)
(* application callbacks it made.                                          *)
(*                                                                         *)
(* Buffers keep the source's 0-based indices: message is a function on     *)
(* 0..256.  Bytes are 0..255, uint16_t values 0..65535.  The tick type is  *)
(* 32 bits wide (TickType_t on the ARM targets the headers name); a tick   *)
(* value is kept as the pair <<high half, low half>> of 16-bit halves      *)
(* because TLC's integers are 32-bit signed.                               *)
(*                                                                         *)
(* message is tracked up to the end of the frame in hand.  The bytes past  *)
(* a frame the driver delivered, or past a request the master built, hold  *)
(* whatever an earlier frame or start-up left there (neither Init function *)
(* clears the buffer); the model keeps 0 in them and a read that reaches   *)
(* one takes its value from an input of the action (stale).                *)
(***************************************************************************)
EXTENDS Integers, Sequences, FiniteSets, TLC

VARIABLES
    mstack,     \* modMasterStack_t: the master session
    regBuf,     \* the caller's register storage that mstack.registers points to
    now,        \* the millisecond time source (MODBUS_GET_TIME_MS)
    elapsed,    \* history: milliseconds the time source has advanced since start-up
    armedAt,    \* history: value of elapsed when the master last armed its receiver
    mOut,       \* the last master call: name, return value, out-params, callbacks made;
                \* of an rx-done callback under way, the frame it was given and its position
    sstack,     \* modSlaveStack_t: the slave session
    sHung,      \* the foreground is inside ModSlaveCheck and does not return
    sOut,       \* the same for the slave
    line        \* what the bus carries to the other side: "idle", "request" or "reply"

vars == <<mstack, regBuf, now, elapsed, armedAt, mOut, sstack, sHung, sOut, line>>
masterVars == <<mstack, regBuf, mOut>>
slaveVars == <<sstack, sHung, sOut>>
timeVars == <<now, elapsed, armedAt>>

(***************************************************************************)
(* Bounds of the model.                                                    *)
(***************************************************************************)
MaxElapsed == 101   \* the time source is followed this many ms past start-up

(***************************************************************************)
(* Program constants.                                                      *)
(***************************************************************************)
MODBUS_OPCODE_READ_OUT_REGS == 3
MODBUS_OPCODE_READ_INP_REGS == 4
MODBUS_OPCODE_WRITE_MULTI_REGS == 16
MODBUS_OPCODE_DIAGNOSTIC == 8
MODBUS_OPCODE_READ_DATA_PACKET == 100
MODBUS_OPCODE_WRITE_DATA_PACKET == 101
MODBUS_ERR_ILLEGAL_OPCODE == 1
MODBUS_ERR_ILLEGAL_ADDRESS == 2
MODBUS_ERR_ILLEGAL_VALUE == 3
MODBUS_ERR_DEVICE_FAULT == 4
MODBUS_RX_TIMEOUT == 100
MessageSize == 257          \* uint8_t message[257]
MaxReadRegs == 125          \* num > 125 is refused
MaxWriteRegs == 123         \* num > 123 is refused
MaxSendLast == 253          \* messageLast > 253 is refused by the senders
MaxRxLen == 257             \* len > 257 is refused by the rx-done callbacks

eMOD_M_STATE_STANDBY == "STANDBY"
eMOD_M_STATE_TRANSMITTING == "TRANSMITTING"
eMOD_M_STATE_WAITING_ANSWER == "WAITING_ANSWER"
eMOD_M_STATE_RECEIVED == "RECEIVED"
eMOD_M_STATE_PROCESSING == "PROCESSING"
eMOD_M_STATE_TIMED_OUT == "TIMED_OUT"
eMOD_M_STATE_CORRUPTED == "CORRUPTED"
eMOD_M_STATE_ERR_REPORTED == "ERR_REPORTED"
eMOD_M_STATE_PROCESSED == "PROCESSED"
eMOD_M_STATE_HW_ERROR == "HW_ERROR"
modMasterState_t ==
    { eMOD_M_STATE_STANDBY, eMOD_M_STATE_TRANSMITTING, eMOD_M_STATE_WAITING_ANSWER,
      eMOD_M_STATE_RECEIVED, eMOD_M_STATE_PROCESSING, eMOD_M_STATE_TIMED_OUT,
      eMOD_M_STATE_CORRUPTED, eMOD_M_STATE_ERR_REPORTED, eMOD_M_STATE_PROCESSED,
      eMOD_M_STATE_HW_ERROR }

eMOD_S_STATE_STANDBY == "STANDBY"
eMOD_S_STATE_RECEIVING == "RECEIVING"
eMOD_S_STATE_RECEIVED == "RECEIVED"
eMOD_S_STATE_PROCESSING == "PROCESSING"
eMOD_S_STATE_TRANSMITTING == "TRANSMITTING"
modSlaveState_t ==
    { eMOD_S_STATE_STANDBY, eMOD_S_STATE_RECEIVING, eMOD_S_STATE_RECEIVED,
      eMOD_S_STATE_PROCESSING, eMOD_S_STATE_TRANSMITTING }

NULL == "NULL"
None == "none"      \* an out-parameter the call did not write; no call under way
Void == 32768       \* recorded as the return value of a void function: not an int16_t

(***************************************************************************)
(* Fixed-width arithmetic.                                                 *)
(***************************************************************************)
U8(x) == x % 256                    \* (uint8_t) x
U16(x) == x % 65536                 \* (uint16_t) x
HiByte(x) == (x \div 256) % 256     \* (uint8_t)(x >> 8)
LoByte(x) == x % 256                \* (uint8_t)(x)
Word(hi, lo) == hi * 256 + lo       \* ((uint16_t)hi << 8) | lo

RECURSIVE BitXor(_, _)
BitXor(a, b) ==
    IF a = 0 THEN b
    ELSE IF b = 0 THEN a
    ELSE 2 * BitXor(a \div 2, b \div 2) + ((a + b) % 2)

\* v with the bit of weight w inverted
ToggleBit(v, w) == IF (v \div w) % 2 = 1 THEN v - w ELSE v + w

\* 32-bit tick values as <<high half, low half>>
TimeAdd(t, d) ==
    LET lo == t[2] + d
    IN  <<(t[1] + lo \div 65536) % 65536, lo % 65536>>
\* a - b without the wrap of the unsigned type: 0 when the counter has wrapped
TimeSubSaturating(a, b) ==
    IF a[1] < b[1] \/ (a[1] = b[1] /\ a[2] < b[2]) THEN <<0, 0>>
    ELSE IF a[2] >= b[2] THEN <<a[1] - b[1], a[2] - b[2]>>
    ELSE <<a[1] - b[1] - 1, a[2] - b[2] + 65536>>

\* (a - b) in the unsigned 32-bit tick type
TimeSub(a, b) ==
    LET borrow == IF a[2] < b[2] THEN 1 ELSE 0
    IN  <<(a[1] - b[1] - borrow + 65536) % 65536, (a[2] - b[2] + 65536) % 65536>>
\* t > n for a tick value t and 0 <= n < 65536
TimeGreater(t, n) == t[1] > 0 \/ t[2] > n

(***************************************************************************)
(* CrcModbus (crc.h): CRC-16, polynomial 0xA001 (0x8005 reversed).  Each   *)
(* byte is XORed into the low byte of the accumulator, which is then       *)
(* shifted right eight times, XORing 0xA001 in whenever the bit shifted    *)
(* out was 1.  The length parameter is a uint8_t.                          *)
(***************************************************************************)
\* one shift: after crc >> 1 bit 15 is clear, so ^ 0xA001 sets bit 15 and
\* inverts bits 13 and 0
CrcShift1(crc) ==
    IF crc % 2 = 1
    THEN 32768 + ToggleBit(ToggleBit(crc \div 2, 8192), 1)
    ELSE crc \div 2

CrcByte(crc, b) ==
    CrcShift1(CrcShift1(CrcShift1(CrcShift1(
    CrcShift1(CrcShift1(CrcShift1(CrcShift1(BitXor(crc, b)))))))))

\* the accumulator after bytes data[lo] .. data[hi - 1], in that order
RECURSIVE CrcRange(_, _, _, _)
CrcRange(data, lo, hi, crc) ==
    IF lo >= hi THEN crc
    ELSE IF hi = lo + 1 THEN CrcByte(crc, data[lo])
    ELSE LET mid == (lo + hi) \div 2
             c == CrcRange(data, lo, mid, crc)
         IN  IF c < 0 THEN c ELSE CrcRange(data, mid, hi, c)

CrcModbus(data, length, crcSeed) == CrcRange(data, 0, U8(length), crcSeed)


(***************************************************************************)
(* Memory helpers.                                                         *)
(***************************************************************************)
\* the bytes buf[0 .. n-1] as a sequence: what a (data, length) argument shows
Bytes(buf, n) == [k \in 1..n |-> buf[k - 1]]
\* message after memcpy(message, msg, len) of a new frame: msg is a sequence of
\* at least len bytes; the bytes past the frame are no longer tracked
MemCpy(msg, len) ==
    [k \in 0..(MessageSize - 1) |-> IF k < len THEN msg[k + 1] ELSE 0]

\* values the application writes: regs[i]
Ramp == [i \in 0..(MaxWriteRegs - 1) |-> U16(4660 + 259 * i)]
AllOnes == [i \in 0..(MaxWriteRegs - 1) |-> 65535]

\* the caller's memory behind a regs pointer
AppMemory(name) == IF name = "AllOnes" THEN AllOnes ELSE Ramp

(***************************************************************************)
(* Master engine (mod_master_rtu.c).  Each operator returns the session    *)
(* after the call (ms), the return value (retval), the driver callbacks    *)
(* made (calls) and the values stored into the status field (writes).      *)
(***************************************************************************)
\* ModMasterSend that appends the CRC high byte first
SendCrcHighFirst(ms, sendRet) ==
    IF ms.messageLast > MaxSendLast
    THEN [ms |-> ms, retval |-> -1, calls |-> <<>>, writes |-> <<>>]
    ELSE LET crc == CrcModbus(ms.message, ms.messageLast + 1, 65535)
             l1 == U16(ms.messageLast + 1)
             l2 == U16(ms.messageLast + 2)
             msg == [ms.message EXCEPT ![l1] = HiByte(crc), ![l2] = LoByte(crc)]
             call == [fn |-> "pfSend", data |-> Bytes(msg, l2 + 1), length |-> l2 + 1]
         IN  IF sendRet < 0
             THEN [ms |-> [ms EXCEPT !.message = msg, !.messageLast = l2,
                                     !.status = eMOD_M_STATE_HW_ERROR],
                   retval |-> -3, calls |-> <<call>>,
                   writes |-> <<eMOD_M_STATE_TRANSMITTING, eMOD_M_STATE_HW_ERROR>>]
             ELSE [ms |-> [ms EXCEPT !.message = msg, !.messageLast = l2,
                                     !.status = eMOD_M_STATE_TRANSMITTING],
                   retval |-> 0, calls |-> <<call>>,
                   writes |-> <<eMOD_M_STATE_TRANSMITTING>>]

ModMasterSend(ms, sendRet) ==
    IF ms.messageLast > MaxSendLast
    THEN [ms |-> ms, retval |-> -1, calls |-> <<>>, writes |-> <<>>]
    ELSE LET crc == CrcModbus(ms.message, ms.messageLast + 1, 65535)
             l1 == U16(ms.messageLast + 1)
             l2 == U16(ms.messageLast + 2)
             msg == [ms.message EXCEPT ![l1] = LoByte(crc), ![l2] = HiByte(crc)]
             call == [fn |-> "pfSend", data |-> Bytes(msg, l2 + 1), length |-> l2 + 1]
         IN  IF sendRet < 0
             THEN [ms |-> [ms EXCEPT !.message = msg, !.messageLast = l2,
                                     !.status = eMOD_M_STATE_HW_ERROR],
                   retval |-> -3, calls |-> <<call>>,
                   writes |-> <<eMOD_M_STATE_TRANSMITTING, eMOD_M_STATE_HW_ERROR>>]
             ELSE [ms |-> [ms EXCEPT !.message = msg, !.messageLast = l2,
                                     !.status = eMOD_M_STATE_TRANSMITTING],
                   retval |-> 0, calls |-> <<call>>,
                   writes |-> <<eMOD_M_STATE_TRANSMITTING>>]

\* message[0..5] of both requests; the bytes past the request are no longer tracked
RequestHeader(modAddress, opCode, first, num) ==
    [k \in 0..(MessageSize - 1) |->
        CASE k = 0 -> modAddress
          [] k = 1 -> opCode
          [] k = 2 -> HiByte(first)
          [] k = 3 -> LoByte(first)
          [] k = 4 -> HiByte(num)
          [] k = 5 -> LoByte(num)
          [] OTHER -> 0]

\* ModMasterReadRegs without its test of the status
ReadRegsUnguarded(ms, req, sendRet) ==
    IF req.num > MaxReadRegs \/ req.regs = NULL
    THEN [ms |-> ms, retval |-> -2, calls |-> <<>>, writes |-> <<>>]
    ELSE ModMasterSend(
            [ms EXCEPT !.slaveAddr = req.modAddress,
                       !.opCode = MODBUS_OPCODE_READ_OUT_REGS,
                       !.firstReg = req.first,
                       !.numRegs = req.num,
                       !.registers = req.regs,
                       !.message = RequestHeader(req.modAddress,
                                        MODBUS_OPCODE_READ_OUT_REGS, req.first, req.num),
                       !.messageLast = 5],
            sendRet)

\* req = [modAddress, first, num, regs]; regs is NULL or the name of the buffer
ModMasterReadRegs(ms, req, sendRet) ==
    IF ms.status # eMOD_M_STATE_STANDBY
    THEN [ms |-> ms, retval |-> -1, calls |-> <<>>, writes |-> <<>>]
    ELSE IF req.num > MaxReadRegs \/ req.regs = NULL
    THEN [ms |-> ms, retval |-> -2, calls |-> <<>>, writes |-> <<>>]
    ELSE ModMasterSend(
            [ms EXCEPT !.slaveAddr = req.modAddress,
                       !.opCode = MODBUS_OPCODE_READ_OUT_REGS,
                       !.firstReg = req.first,
                       !.numRegs = req.num,
                       !.registers = req.regs,
                       !.message = RequestHeader(req.modAddress,
                                        MODBUS_OPCODE_READ_OUT_REGS, req.first, req.num),
                       !.messageLast = 5],
            sendRet)

\* req = [modAddress, first, num, regs]; regs is NULL or the name of the values
ModMasterWriteRegs(ms, req, sendRet) ==
    IF ms.status # eMOD_M_STATE_STANDBY
    THEN [ms |-> ms, retval |-> -1, calls |-> <<>>, writes |-> <<>>]
    ELSE IF req.num > MaxWriteRegs \/ req.regs = NULL
    THEN [ms |-> ms, retval |-> -2, calls |-> <<>>, writes |-> <<>>]
    ELSE LET hdr == RequestHeader(req.modAddress,
                        MODBUS_OPCODE_WRITE_MULTI_REGS, req.first, req.num)
             \* message[6] = 2 * num, then regs[i] high byte, low byte from index 7 on
             msg == [k \in 0..(MessageSize - 1) |->
                        IF k = 6 THEN U8(req.num * 2)
                        ELSE IF k >= 7 /\ k < 7 + 2 * req.num
                        THEN IF (k - 7) % 2 = 0
                             THEN HiByte(AppMemory(req.regs)[(k - 7) \div 2])
                             ELSE LoByte(AppMemory(req.regs)[(k - 7) \div 2])
                        ELSE hdr[k]]
         IN  ModMasterSend(
                [ms EXCEPT !.slaveAddr = req.modAddress,
                           !.opCode = MODBUS_OPCODE_WRITE_MULTI_REGS,
                           !.firstReg = req.first,
                           !.numRegs = req.num,
                           !.message = msg,
                           !.messageLast = 6 + 2 * req.num],
                sendRet)

\* ModMasterProcessAnswer without its test of the byte count of a read reply
ProcessAnswerAnyCount(ms, buf) ==
    LET Done(st, b) == [ms |-> [ms EXCEPT !.status = st], buf |-> b, writes |-> <<st>>]
        fn == ms.message[1]
    IN  IF fn % 128 # ms.opCode
        THEN Done(eMOD_M_STATE_CORRUPTED, buf)
        ELSE IF fn \div 128 = 1
        THEN IF ms.messageLast < 2
             THEN Done(eMOD_M_STATE_CORRUPTED, buf)
             ELSE Done(eMOD_M_STATE_ERR_REPORTED, buf)
        ELSE IF fn \in {MODBUS_OPCODE_READ_OUT_REGS, MODBUS_OPCODE_READ_INP_REGS}
        THEN IF ms.messageLast < 2 + 2 * ms.numRegs
             THEN Done(eMOD_M_STATE_CORRUPTED, buf)
             ELSE Done(eMOD_M_STATE_PROCESSED,
                       [i \in DOMAIN buf |->
                           IF i < ms.numRegs
                           THEN Word(ms.message[3 + 2 * i], ms.message[4 + 2 * i])
                           ELSE buf[i]])
        ELSE IF fn = MODBUS_OPCODE_WRITE_MULTI_REGS
        THEN IF ms.messageLast >= 5
                /\ ms.message[2] = HiByte(ms.firstReg)
                /\ ms.message[3] = LoByte(ms.firstReg)
                /\ ms.message[4] = HiByte(ms.numRegs)
                /\ ms.message[5] = LoByte(ms.numRegs)
             THEN Done(eMOD_M_STATE_PROCESSED, buf)
             ELSE Done(eMOD_M_STATE_CORRUPTED, buf)
        ELSE Done(eMOD_M_STATE_CORRUPTED, buf)

\* ModMasterProcessAnswer that copies the register values before it has
\* looked at the length and the byte count of a read reply
ProcessAnswerCopiesFirst(ms, buf) ==
    LET Done(st, b) == [ms |-> [ms EXCEPT !.status = st], buf |-> b, writes |-> <<st>>]
        fn == ms.message[1]
        copied == IF ms.registers = NULL THEN buf
                  ELSE [i \in DOMAIN buf |->
                           IF i < ms.numRegs
                           THEN Word(ms.message[3 + 2 * i], ms.message[4 + 2 * i])
                           ELSE buf[i]]
    IN  IF fn % 128 # ms.opCode
        THEN Done(eMOD_M_STATE_CORRUPTED, buf)
        ELSE IF fn \div 128 = 1
        THEN IF ms.messageLast < 2
             THEN Done(eMOD_M_STATE_CORRUPTED, buf)
             ELSE Done(eMOD_M_STATE_ERR_REPORTED, buf)
        ELSE IF fn \in {MODBUS_OPCODE_READ_OUT_REGS, MODBUS_OPCODE_READ_INP_REGS}
        THEN IF ms.messageLast < 2 + 2 * ms.numRegs \/ ms.message[2] # 2 * ms.numRegs
             THEN Done(eMOD_M_STATE_CORRUPTED, copied)
             ELSE Done(eMOD_M_STATE_PROCESSED, copied)
        ELSE IF fn = MODBUS_OPCODE_WRITE_MULTI_REGS
        THEN IF ms.messageLast < 5
             THEN Done(eMOD_M_STATE_CORRUPTED, buf)
             ELSE IF /\ ms.message[2] = HiByte(ms.firstReg)
                     /\ ms.message[3] = LoByte(ms.firstReg)
                     /\ ms.message[4] = HiByte(ms.numRegs)
                     /\ ms.message[5] = LoByte(ms.numRegs)
                  THEN Done(eMOD_M_STATE_PROCESSED, buf)
                  ELSE Done(eMOD_M_STATE_CORRUPTED, buf)
        ELSE Done(eMOD_M_STATE_CORRUPTED, buf)

\* returns the session, the caller's buffer and the status values stored
ModMasterProcessAnswer(ms, buf) ==
    LET Done(st, b) == [ms |-> [ms EXCEPT !.status = st], buf |-> b, writes |-> <<st>>]
        fn == ms.message[1]
    IN  IF fn % 128 # ms.opCode
        THEN Done(eMOD_M_STATE_CORRUPTED, buf)
        ELSE IF fn \div 128 = 1
        THEN IF ms.messageLast < 2
             THEN Done(eMOD_M_STATE_CORRUPTED, buf)
             ELSE Done(eMOD_M_STATE_ERR_REPORTED, buf)
        ELSE IF fn \in {MODBUS_OPCODE_READ_OUT_REGS, MODBUS_OPCODE_READ_INP_REGS}
        THEN IF ms.messageLast < 2 + 2 * ms.numRegs \/ ms.message[2] # 2 * ms.numRegs
             THEN Done(eMOD_M_STATE_CORRUPTED, buf)
             ELSE Done(eMOD_M_STATE_PROCESSED,
                       IF ms.registers = NULL THEN buf
                       ELSE [i \in DOMAIN buf |->
                                IF i < ms.numRegs
                                THEN Word(ms.message[3 + 2 * i], ms.message[4 + 2 * i])
                                ELSE buf[i]])
        ELSE IF fn = MODBUS_OPCODE_WRITE_MULTI_REGS
        THEN IF ms.messageLast < 5
             THEN Done(eMOD_M_STATE_CORRUPTED, buf)
             ELSE IF /\ ms.message[2] = HiByte(ms.firstReg)
                     /\ ms.message[3] = LoByte(ms.firstReg)
                     /\ ms.message[4] = HiByte(ms.numRegs)
                     /\ ms.message[5] = LoByte(ms.numRegs)
                  THEN Done(eMOD_M_STATE_PROCESSED, buf)
                  ELSE Done(eMOD_M_STATE_CORRUPTED, buf)
        ELSE Done(eMOD_M_STATE_CORRUPTED, buf)

\* ModMasterParseAnswer comparing only the high byte of the CRC
ParseAnswerHalfCrc(ms, buf) ==
    LET Done(m, st) == [ms |-> [m EXCEPT !.status = st], buf |-> buf,
                        writes |-> <<eMOD_M_STATE_PROCESSING, st>>]
    IN  IF ms.message[0] = ms.slaveAddr
        THEN IF ms.messageLast < 3
             THEN Done(ms, eMOD_M_STATE_CORRUPTED)
             ELSE LET crc == CrcModbus(ms.message, ms.messageLast - 1, 65535)
                      m1 == [ms EXCEPT !.messageLast = ms.messageLast - 1]
                      m2 == [ms EXCEPT !.messageLast = ms.messageLast - 2]
                  IN  IF ms.message[ms.messageLast] # HiByte(crc)
                      THEN Done(m1, eMOD_M_STATE_CORRUPTED)
                      ELSE LET r == ModMasterProcessAnswer(m2, buf)
                           IN  [ms |-> r.ms, buf |-> r.buf,
                                writes |-> <<eMOD_M_STATE_PROCESSING>> \o r.writes]
        ELSE Done(ms, eMOD_M_STATE_CORRUPTED)

ModMasterParseAnswer(ms, buf) ==
    LET Done(m, st) == [ms |-> [m EXCEPT !.status = st], buf |-> buf,
                        writes |-> <<eMOD_M_STATE_PROCESSING, st>>]
    IN  IF ms.message[0] = ms.slaveAddr
        THEN IF ms.messageLast < 3
             THEN Done(ms, eMOD_M_STATE_CORRUPTED)
             ELSE LET crc == CrcModbus(ms.message, ms.messageLast - 1, 65535)
                      \* the || stops at the first mismatch: one decrement or two
                      m1 == [ms EXCEPT !.messageLast = ms.messageLast - 1]
                      m2 == [ms EXCEPT !.messageLast = ms.messageLast - 2]
                  IN  IF ms.message[ms.messageLast] # HiByte(crc)
                      THEN Done(m1, eMOD_M_STATE_CORRUPTED)
                      ELSE IF ms.message[ms.messageLast - 1] # LoByte(crc)
                      THEN Done(m2, eMOD_M_STATE_CORRUPTED)
                      ELSE LET r == ModMasterProcessAnswer(m2, buf)
                           IN  [ms |-> r.ms, buf |-> r.buf,
                                writes |-> <<eMOD_M_STATE_PROCESSING>> \o r.writes]
        ELSE Done(ms, eMOD_M_STATE_CORRUPTED)

\* ModMasterCheck that leaves the outcome of the parse in the status field
CheckKeepsOutcome(ms, buf, timeMs, errPtr) ==
    LET Ret(m, b, rv, last, ec, w) ==
            [ms |-> m, buf |-> b, retval |-> rv, lastStatus |-> last,
             errCode |-> ec, writes |-> w]
        ToStandby(m) == [m EXCEPT !.status = eMOD_M_STATE_STANDBY]
        status == ms.status
    IN  CASE status = eMOD_M_STATE_STANDBY ->
                Ret(ms, buf, 1, status, <<>>, <<>>)
          [] status = eMOD_M_STATE_TRANSMITTING ->
                Ret(ms, buf, 0, status, <<>>, <<>>)
          [] status = eMOD_M_STATE_WAITING_ANSWER ->
                IF TimeGreater(TimeSub(timeMs, ms.rxStartTime), MODBUS_RX_TIMEOUT)
                THEN Ret(ToStandby(ms), buf, 1, eMOD_M_STATE_TIMED_OUT, <<>>,
                         <<eMOD_M_STATE_STANDBY>>)
                ELSE Ret(ms, buf, 0, status, <<>>, <<>>)
          [] status = eMOD_M_STATE_RECEIVED ->
                LET p == ModMasterParseAnswer(ms, buf)
                IN  Ret(p.ms, p.buf, 1, p.ms.status,
                        IF p.ms.status = eMOD_M_STATE_ERR_REPORTED /\ errPtr # NULL
                        THEN <<p.ms.message[2]>> ELSE <<>>,
                        p.writes)
          [] status \in {eMOD_M_STATE_CORRUPTED, eMOD_M_STATE_HW_ERROR} ->
                Ret(ToStandby(ms), buf, 1, status, <<>>, <<eMOD_M_STATE_STANDBY>>)
          [] OTHER ->
                Ret(ToStandby(ms), buf, 0, status, <<>>, <<eMOD_M_STATE_STANDBY>>)

\* ModMasterCheck that reports a corrupted answer without going to standby
CheckKeepsCorrupted(ms, buf, timeMs, errPtr) ==
    LET Ret(m, b, rv, last, ec, w) ==
            [ms |-> m, buf |-> b, retval |-> rv, lastStatus |-> last,
             errCode |-> ec, writes |-> w]
        ToStandby(m) == [m EXCEPT !.status = eMOD_M_STATE_STANDBY]
        status == ms.status
    IN  CASE status = eMOD_M_STATE_STANDBY ->
                Ret(ms, buf, 1, status, <<>>, <<>>)
          [] status = eMOD_M_STATE_TRANSMITTING ->
                Ret(ms, buf, 0, status, <<>>, <<>>)
          [] status = eMOD_M_STATE_WAITING_ANSWER ->
                IF TimeGreater(TimeSub(timeMs, ms.rxStartTime), MODBUS_RX_TIMEOUT)
                THEN Ret(ToStandby(ms), buf, 1, eMOD_M_STATE_TIMED_OUT, <<>>,
                         <<eMOD_M_STATE_STANDBY>>)
                ELSE Ret(ms, buf, 0, status, <<>>, <<>>)
          [] status = eMOD_M_STATE_RECEIVED ->
                LET p == ModMasterParseAnswer(ms, buf)
                IN  Ret(ToStandby(p.ms), p.buf, 1, p.ms.status,
                        IF p.ms.status = eMOD_M_STATE_ERR_REPORTED /\ errPtr # NULL
                        THEN <<p.ms.message[2]>> ELSE <<>>,
                        p.writes \o <<eMOD_M_STATE_STANDBY>>)
          [] status = eMOD_M_STATE_CORRUPTED ->
                Ret(ms, buf, 1, status, <<>>, <<>>)
          [] status = eMOD_M_STATE_HW_ERROR ->
                Ret(ToStandby(ms), buf, 1, status, <<>>, <<eMOD_M_STATE_STANDBY>>)
          [] OTHER ->
                Ret(ToStandby(ms), buf, 0, status, <<>>, <<eMOD_M_STATE_STANDBY>>)

\* errPtr is NULL or the name of the caller's errCode variable; errCode in the
\* result is <<>> when *errCode was not written, else the one value stored
ModMasterCheck(ms, buf, timeMs, errPtr) ==
    LET Ret(m, b, rv, last, ec, w) ==
            [ms |-> m, buf |-> b, retval |-> rv, lastStatus |-> last,
             errCode |-> ec, writes |-> w]
        ToStandby(m) == [m EXCEPT !.status = eMOD_M_STATE_STANDBY]
        status == ms.status
    IN  CASE status = eMOD_M_STATE_STANDBY ->
                Ret(ms, buf, 1, status, <<>>, <<>>)
          [] status = eMOD_M_STATE_TRANSMITTING ->
                Ret(ms, buf, 0, status, <<>>, <<>>)
          [] status = eMOD_M_STATE_WAITING_ANSWER ->
                IF TimeGreater(TimeSub(timeMs, ms.rxStartTime), MODBUS_RX_TIMEOUT)
                THEN Ret(ToStandby(ms), buf, 1, eMOD_M_STATE_TIMED_OUT, <<>>,
                         <<eMOD_M_STATE_STANDBY>>)
                ELSE Ret(ms, buf, 0, status, <<>>, <<>>)
          [] status = eMOD_M_STATE_RECEIVED ->
                LET p == ModMasterParseAnswer(ms, buf)
                IN  Ret(ToStandby(p.ms), p.buf, 1, p.ms.status,
                        IF p.ms.status = eMOD_M_STATE_ERR_REPORTED /\ errPtr # NULL
                        THEN <<p.ms.message[2]>> ELSE <<>>,
                        p.writes \o <<eMOD_M_STATE_STANDBY>>)
          [] status \in {eMOD_M_STATE_CORRUPTED, eMOD_M_STATE_HW_ERROR} ->
                Ret(ToStandby(ms), buf, 1, status, <<>>, <<eMOD_M_STATE_STANDBY>>)
          [] OTHER ->
                Ret(ToStandby(ms), buf, 0, status, <<>>, <<eMOD_M_STATE_STANDBY>>)

\* ModMasterTxDoneCallback that does not look at what pfReceive returns
TxDoneIgnoresReceive(ms, recvRet, timeIsr) ==
    IF ms.status = eMOD_M_STATE_TRANSMITTING
    THEN [ms |-> [ms EXCEPT !.status = eMOD_M_STATE_WAITING_ANSWER,
                            !.rxStartTime = timeIsr],
          calls |-> <<[fn |-> "pfReceive"]>>,
          writes |-> <<eMOD_M_STATE_WAITING_ANSWER>>]
    ELSE [ms |-> ms, calls |-> <<>>, writes |-> <<>>]

\* ModMasterCheck interrupted after it has read the status (line 229): ms is
\* the stack it read the status from, m1 the stack the interrupting callback
\* left; the switch runs on the value read and acts on m1
ModMasterCheckInterrupted(ms, m1, buf, timeMs, errPtr) ==
    LET Ret(m, b, rv, last, ec, w) ==
            [ms |-> m, buf |-> b, retval |-> rv, lastStatus |-> last,
             errCode |-> ec, writes |-> w]
        ToStandby(m) == [m EXCEPT !.status = eMOD_M_STATE_STANDBY]
        status == ms.status
    IN  CASE status = eMOD_M_STATE_STANDBY ->
                Ret(m1, buf, 1, status, <<>>, <<>>)
          [] status = eMOD_M_STATE_TRANSMITTING ->
                Ret(m1, buf, 0, status, <<>>, <<>>)
          [] status = eMOD_M_STATE_WAITING_ANSWER ->
                IF TimeGreater(TimeSub(timeMs, m1.rxStartTime), MODBUS_RX_TIMEOUT)
                THEN Ret(ToStandby(m1), buf, 1, eMOD_M_STATE_TIMED_OUT, <<>>,
                         <<eMOD_M_STATE_STANDBY>>)
                ELSE Ret(m1, buf, 0, status, <<>>, <<>>)
          [] status = eMOD_M_STATE_RECEIVED ->
                LET p == ModMasterParseAnswer(m1, buf)
                IN  Ret(ToStandby(p.ms), p.buf, 1, p.ms.status,
                        IF p.ms.status = eMOD_M_STATE_ERR_REPORTED /\ errPtr # NULL
                        THEN <<p.ms.message[2]>> ELSE <<>>,
                        p.writes \o <<eMOD_M_STATE_STANDBY>>)
          [] status \in {eMOD_M_STATE_CORRUPTED, eMOD_M_STATE_HW_ERROR} ->
                Ret(ToStandby(m1), buf, 1, status, <<>>, <<eMOD_M_STATE_STANDBY>>)
          [] OTHER ->
                Ret(ToStandby(m1), buf, 0, status, <<>>, <<eMOD_M_STATE_STANDBY>>)

\* recvRet is what pfReceive returns; timeIsr is MODBUS_GET_TIME_ISR_MS
ModMasterTxDoneCallback(ms, recvRet, timeIsr) ==
    IF ms.status = eMOD_M_STATE_TRANSMITTING
    THEN [ms |-> [ms EXCEPT !.status = IF recvRet < 0 THEN eMOD_M_STATE_HW_ERROR
                                       ELSE eMOD_M_STATE_WAITING_ANSWER,
                            !.rxStartTime = timeIsr],
          calls |-> <<[fn |-> "pfReceive"]>>,
          writes |-> IF recvRet < 0
                     THEN <<eMOD_M_STATE_WAITING_ANSWER, eMOD_M_STATE_HW_ERROR>>
                     ELSE <<eMOD_M_STATE_WAITING_ANSWER>>]
    ELSE [ms |-> ms, calls |-> <<>>, writes |-> <<>>]

\* the position of a callback that has returned
RxReturned == 3

\* ModMasterTxDoneCallback statement by statement: the status (line 295), the
\* call of pfReceive and the status after its failure (296-298), the time
\* stamp (299); pc counts the statements done, RxReturned is the callback's end
ModMasterTxDoneStep(ms, recvRet, timeIsr, pc) ==
    CASE pc = 0 ->
            IF ms.status # eMOD_M_STATE_TRANSMITTING
            THEN [ms |-> ms, pc |-> RxReturned, calls |-> <<>>, writes |-> <<>>]
            ELSE [ms |-> [ms EXCEPT !.status = eMOD_M_STATE_WAITING_ANSWER],
                  pc |-> 1, calls |-> <<>>, writes |-> <<eMOD_M_STATE_WAITING_ANSWER>>]
      [] pc = 1 ->
            IF recvRet < 0
            THEN [ms |-> [ms EXCEPT !.status = eMOD_M_STATE_HW_ERROR],
                  pc |-> 2, calls |-> <<[fn |-> "pfReceive"]>>,
                  writes |-> <<eMOD_M_STATE_HW_ERROR>>]
            ELSE [ms |-> ms, pc |-> 2, calls |-> <<[fn |-> "pfReceive"]>>, writes |-> <<>>]
      [] pc = 2 ->
            [ms |-> [ms EXCEPT !.rxStartTime = timeIsr],
             pc |-> RxReturned, calls |-> <<>>, writes |-> <<>>]

\* ModMasterRxDoneCallback without its test of the status
RxDoneUnguarded(ms, msg, len) ==
    IF len < 1 \/ len > MaxRxLen
    THEN [ms |-> [ms EXCEPT !.status = eMOD_M_STATE_CORRUPTED],
          calls |-> <<>>, writes |-> <<eMOD_M_STATE_CORRUPTED>>]
    ELSE [ms |-> [ms EXCEPT !.messageLast = len - 1,
                            !.message = MemCpy(msg, len),
                            !.status = eMOD_M_STATE_RECEIVED],
          calls |-> <<>>, writes |-> <<eMOD_M_STATE_RECEIVED>>]

\* msg is the byte sequence the driver received, len the length it reports
ModMasterRxDoneCallback(ms, msg, len) ==
    IF ms.status = eMOD_M_STATE_WAITING_ANSWER
    THEN IF len < 1 \/ len > MaxRxLen
         THEN [ms |-> [ms EXCEPT !.status = eMOD_M_STATE_CORRUPTED],
               calls |-> <<>>, writes |-> <<eMOD_M_STATE_CORRUPTED>>]
         ELSE [ms |-> [ms EXCEPT !.messageLast = len - 1,
                                 !.message = MemCpy(msg, len),
                                 !.status = eMOD_M_STATE_RECEIVED],
               calls |-> <<>>, writes |-> <<eMOD_M_STATE_RECEIVED>>]
    ELSE [ms |-> ms, calls |-> <<>>, writes |-> <<>>]

\* ModMasterRxDoneCallback statement by statement; pc counts the stores made
\* (0 on entry), RxReturned is the callback's end
ModMasterRxDoneStep(ms, msg, len, pc) ==
    CASE pc = 0 ->
            IF ms.status # eMOD_M_STATE_WAITING_ANSWER
            THEN [ms |-> ms, pc |-> RxReturned, writes |-> <<>>]
            ELSE IF len < 1 \/ len > MaxRxLen
            THEN [ms |-> [ms EXCEPT !.status = eMOD_M_STATE_CORRUPTED],
                  pc |-> RxReturned, writes |-> <<eMOD_M_STATE_CORRUPTED>>]
            ELSE [ms |-> [ms EXCEPT !.messageLast = len - 1], pc |-> 1, writes |-> <<>>]
      [] pc = 1 ->
            [ms |-> [ms EXCEPT !.message = MemCpy(msg, len)], pc |-> 2, writes |-> <<>>]
      [] pc = 2 ->
            [ms |-> [ms EXCEPT !.status = eMOD_M_STATE_RECEIVED],
             pc |-> RxReturned, writes |-> <<eMOD_M_STATE_RECEIVED>>]

ModMasterRxErrorCallback(ms) ==
    IF ms.status = eMOD_M_STATE_WAITING_ANSWER
    THEN [ms |-> [ms EXCEPT !.status = eMOD_M_STATE_CORRUPTED],
          calls |-> <<>>, writes |-> <<eMOD_M_STATE_CORRUPTED>>]
    ELSE [ms |-> ms, calls |-> <<>>, writes |-> <<>>]

(***************************************************************************)
(* The application behind the slave: its register callbacks.               *)
(* A register of FaultyRegs reports a device fault on every access; the    *)
(* others hold AppReg.                                                     *)
(***************************************************************************)
FaultyRegs == {300}
AppReg(a) == IF a \in {107, 108} THEN a - 97 ELSE U16(4660 + 259 * a)
\* pfGetReg(mstack, a, &v): the returned code r and the value v
GetReg(a) == IF a \in FaultyRegs THEN [r |-> MODBUS_ERR_DEVICE_FAULT, v |-> 0]
             ELSE [r |-> 0, v |-> AppReg(a)]
\* pfSetReg(mstack, a, v): the returned code
SetReg(a, v) == IF a \in FaultyRegs THEN MODBUS_ERR_DEVICE_FAULT ELSE 0
\* bytes pfGetPacket stores at message + 3
PacketByte(k) == U8(161 + 7 * k)

(***************************************************************************)
(* Slave engine (mod_slave_rtu.c).  ss is the modSlaveStack_t record with  *)
(* one more field, tracked: the number of bytes of the frame in hand.      *)
(* Every operator returns the record after the call (ss), the return value *)
(* (retval), the callbacks made (calls), the values stored into the status *)
(* field (writes) and hung: the call does not return.                      *)
(***************************************************************************)
\* message[k] as the code reads it; stale gives the bytes an earlier frame left
Rd(ss, k, stale) == IF k < ss.tracked THEN ss.message[k] ELSE stale[k]

\* ModSlaveSendAnswer that gives the bus up when pfSendAns fails
SendAnswerResetsOnFault(ss, sendRet) ==
    IF ss.messageLast > MaxSendLast
    THEN [ss |-> ss, retval |-> -1, calls |-> <<>>, writes |-> <<>>]
    ELSE LET crc == CrcModbus(ss.message, ss.messageLast + 1, 65535)
             l1 == U16(ss.messageLast + 1)
             l2 == U16(ss.messageLast + 2)
             msg == [ss.message EXCEPT ![l1] = LoByte(crc), ![l2] = HiByte(crc)]
             st == IF sendRet < 0 THEN eMOD_S_STATE_STANDBY
                   ELSE eMOD_S_STATE_TRANSMITTING
         IN  [ss |-> [ss EXCEPT !.message = msg, !.messageLast = l2, !.status = st],
              retval |-> sendRet,
              calls |-> <<[fn |-> "pfSendAns", data |-> Bytes(msg, l2 + 1),
                           length |-> l2 + 1]>>,
              writes |-> <<eMOD_S_STATE_TRANSMITTING, st>>]

ModSlaveSendAnswer(ss, sendRet) ==
    IF ss.messageLast > MaxSendLast
    THEN [ss |-> ss, retval |-> -1, calls |-> <<>>, writes |-> <<>>]
    ELSE LET crc == CrcModbus(ss.message, ss.messageLast + 1, 65535)
             l1 == U16(ss.messageLast + 1)
             l2 == U16(ss.messageLast + 2)
             msg == [ss.message EXCEPT ![l1] = LoByte(crc), ![l2] = HiByte(crc)]
         IN  [ss |-> [ss EXCEPT !.message = msg, !.messageLast = l2,
                                !.status = eMOD_S_STATE_TRANSMITTING],
              retval |-> sendRet,
              calls |-> <<[fn |-> "pfSendAns", data |-> Bytes(msg, l2 + 1),
                           length |-> l2 + 1]>>,
              writes |-> <<eMOD_S_STATE_TRANSMITTING>>]

ModSlaveErrorReport(ss, err) ==
    [ss EXCEPT !.message = [@ EXCEPT ![1] = U8(@ + 128), ![2] = err],
               !.messageLast = 2]

\* the least element of a non-empty set of numbers
Least(S) == CHOOSE t \in S : \A u \in S : t <= u

\* case READ_OUT_REGS / READ_INP_REGS
SlaveReadRegs(ss) ==
    LET m == ss.message
        i == Word(m[2], m[3])
        n == m[5]
        j == U16(n - 1 + i)
        Ret(s, rv, c, h) == [ss |-> s, retval |-> rv, calls |-> c, hung |-> h]
    IN  IF ss.messageLast # 5 \/ m[4] # 0 \/ n > MaxReadRegs \/ n < 1
        THEN Ret(ModSlaveErrorReport(ss, MODBUS_ERR_ILLEGAL_VALUE), -1, <<>>, FALSE)
        ELSE IF i > j \/ j > ss.lastReg
        THEN Ret(ModSlaveErrorReport(ss, MODBUS_ERR_ILLEGAL_ADDRESS), -1, <<>>, FALSE)
        ELSE LET \* for ( ; i <= j; i++) ends only if j < 65535; pass t stores
                 \* message[3 + 2t] and message[4 + 2t], so pass 127 is the first
                 \* to store past message[256]: it leaves messageLast at 258 and
                 \* what the loop does from there on is not followed
                 endless == j = 65535
                 passes == IF endless THEN 0..((MessageSize - 3) \div 2) ELSE 0..(n - 1)
                 faults == {t \in passes : GetReg(U16(i + t)).r > 0}
                 done == IF faults # {} THEN Least(faults)
                         ELSE IF endless THEN (MessageSize - 3) \div 2 + 1 ELSE n
                 built == [k \in 0..(MessageSize - 1) |->
                             IF k = 2 THEN U8(2 * n)
                             ELSE IF k >= 3 /\ k < 3 + 2 * done
                             THEN IF (k - 3) % 2 = 0
                                  THEN HiByte(GetReg(U16(i + (k - 3) \div 2)).v)
                                  ELSE LoByte(GetReg(U16(i + (k - 3) \div 2)).v)
                             ELSE m[k]]
                 s1 == [ss EXCEPT !.message = built, !.messageLast = 2 + 2 * done]
             IN  IF faults # {}
                 THEN Ret(ModSlaveErrorReport(s1, GetReg(U16(i + done)).r), -1,
                          <<[fn |-> "pfGetReg", first |-> i, count |-> done + 1]>>, FALSE)
                 ELSE IF endless
                 THEN Ret(s1, 0, <<[fn |-> "pfGetReg", first |-> i, count |-> done]>>, TRUE)
                 ELSE Ret(s1, 0, <<[fn |-> "pfGetReg", first |-> i, count |-> n]>>, FALSE)

\* case WRITE_MULTI_REGS
SlaveWriteRegs(ss, stale) ==
    LET m == ss.message
        i == Word(m[2], m[3])
        n == Rd(ss, 5, stale)
        j == U16(n - 1 + i)
        Ret(s, rv, c, h) == [ss |-> s, retval |-> rv, calls |-> c, hung |-> h]
    IN  IF Rd(ss, 4, stale) # 0 \/ n > MaxWriteRegs \/ n < 1
        THEN Ret(ModSlaveErrorReport(ss, MODBUS_ERR_ILLEGAL_VALUE), -1, <<>>, FALSE)
        ELSE IF Rd(ss, 6, stale) # 2 * n \/ Rd(ss, 6, stale) # ss.messageLast - 6
        THEN Ret(ModSlaveErrorReport(ss, MODBUS_ERR_ILLEGAL_VALUE), -1, <<>>, FALSE)
        ELSE IF i > j \/ j > ss.lastReg
        THEN Ret(ModSlaveErrorReport(ss, MODBUS_ERR_ILLEGAL_ADDRESS), -1, <<>>, FALSE)
        ELSE LET \* pass t reads message[7 + 2t] and message[8 + 2t]; pass 125 is
                 \* the first to read past message[256]
                 endless == j = 65535
                 passes == IF endless THEN 0..((MessageSize - 9) \div 2) ELSE 0..(n - 1)
                 val(t) == Word(Rd(ss, 7 + 2 * t, stale), Rd(ss, 8 + 2 * t, stale))
                 faults == {t \in passes : SetReg(U16(i + t), val(t)) > 0}
                 done == IF faults # {} THEN Least(faults) + 1
                         ELSE IF endless THEN (MessageSize - 9) \div 2 + 1 ELSE n
                 call == [fn |-> "pfSetReg", first |-> i,
                          vals |-> [t \in 1..done |-> val(t - 1)]]
             IN  IF faults # {}
                 THEN Ret(ModSlaveErrorReport(ss, SetReg(U16(i + done - 1), val(done - 1))),
                          -1, <<call>>, FALSE)
                 ELSE IF endless
                 THEN Ret(ss, 0, <<call>>, TRUE)
                 ELSE Ret([ss EXCEPT !.messageLast = 5], 0, <<call>>, FALSE)

\* pkt = [r, len]: what pfGetPacket returns and the length it reports in i;
\* it has stored len bytes from message[3] on
ModSlaveProcessCommand(ss, stale, pkt) ==
    LET m == ss.message
        Ret(s, rv, c) == [ss |-> s, retval |-> rv, calls |-> c, hung |-> FALSE]
        fn == m[1]
    IN  CASE fn \in {MODBUS_OPCODE_READ_OUT_REGS, MODBUS_OPCODE_READ_INP_REGS} ->
                SlaveReadRegs(ss)
          [] fn = MODBUS_OPCODE_WRITE_MULTI_REGS ->
                SlaveWriteRegs(ss, stale)
          [] fn = MODBUS_OPCODE_DIAGNOSTIC ->
                IF m[2] = 0 /\ m[3] = 0
                THEN Ret(ss, 0, <<>>)
                ELSE Ret(ModSlaveErrorReport(ss, MODBUS_ERR_ILLEGAL_OPCODE), -1, <<>>)
          [] fn = MODBUS_OPCODE_READ_DATA_PACKET ->
                IF ss.messageLast # 2
                THEN Ret(ModSlaveErrorReport(ss, MODBUS_ERR_ILLEGAL_VALUE), -1, <<>>)
                ELSE LET stored == [ss EXCEPT !.message =
                                      [k \in 0..(MessageSize - 1) |->
                                          IF k >= 3 /\ k < 3 + pkt.len
                                          THEN PacketByte(k - 3) ELSE m[k]]]
                         call == [fn |-> "pfGetPacket"]
                     IN  IF pkt.r > 0
                         THEN Ret(ModSlaveErrorReport(ss, pkt.r), -1, <<call>>)
                         ELSE IF pkt.len > 251
                         THEN Ret(ModSlaveErrorReport(stored, MODBUS_ERR_DEVICE_FAULT),
                                  -1, <<call>>)
                         ELSE Ret([stored EXCEPT !.message[2] = U8(pkt.len),
                                                 !.messageLast = pkt.len + 2],
                                  0, <<call>>)
          [] fn = MODBUS_OPCODE_WRITE_DATA_PACKET ->
                IF ss.messageLast # m[2] + 2
                THEN Ret(ModSlaveErrorReport(ss, MODBUS_ERR_ILLEGAL_VALUE), -1, <<>>)
                ELSE Ret([ss EXCEPT !.messageLast = 2], 0,
                         <<[fn |-> "pfSetPacket",
                            data |-> [k \in 1..m[2] |-> m[k + 2]], length |-> m[2]]>>)
          [] OTHER ->
                Ret(ModSlaveErrorReport(ss, MODBUS_ERR_ILLEGAL_OPCODE), -1, <<>>)

\* ModSlaveParseMessage without the test of the first byte: every frame is
\* taken as addressed to this station
ParseMessageAnyStation(ss, stale, pkt, sendRet) ==
    LET Drop(s, rv) == [ss |-> [s EXCEPT !.status = eMOD_S_STATE_STANDBY], retval |-> rv,
                        calls |-> <<>>, hung |-> FALSE,
                        writes |-> <<eMOD_S_STATE_PROCESSING, eMOD_S_STATE_STANDBY>>]
        s0 == [ss EXCEPT !.status = eMOD_S_STATE_PROCESSING]
    IN  IF s0.messageLast < 3
        THEN Drop(s0, -1)
        ELSE LET crc == CrcModbus(s0.message, s0.messageLast - 1, 65535)
                 s1 == [s0 EXCEPT !.messageLast = s0.messageLast - 1]
                 s2 == [s0 EXCEPT !.messageLast = s0.messageLast - 2]
             IN  IF s0.message[s0.messageLast] # HiByte(crc)
                 THEN Drop(s1, -1)
                 ELSE IF s0.message[s0.messageLast - 1] # LoByte(crc)
                 THEN Drop(s2, -1)
                 ELSE LET p == ModSlaveProcessCommand(s2, stale, pkt)
                          a == ModSlaveSendAnswer(p.ss, sendRet)
                      IN  IF p.hung
                          THEN [ss |-> p.ss, retval |-> p.retval, calls |-> p.calls,
                                hung |-> TRUE, writes |-> <<eMOD_S_STATE_PROCESSING>>]
                          ELSE IF p.ss.message[0] # 0
                          THEN [ss |-> a.ss,
                                retval |-> IF a.retval < 0 THEN a.retval ELSE p.retval,
                                calls |-> p.calls \o a.calls, hung |-> FALSE,
                                writes |-> <<eMOD_S_STATE_PROCESSING>> \o a.writes]
                          ELSE [ss |-> [p.ss EXCEPT !.status = eMOD_S_STATE_STANDBY],
                                retval |-> p.retval, calls |-> p.calls, hung |-> FALSE,
                                writes |-> <<eMOD_S_STATE_PROCESSING,
                                             eMOD_S_STATE_STANDBY>>]

ModSlaveParseMessage(ss, stale, pkt, sendRet) ==
    LET Drop(s, rv) == [ss |-> [s EXCEPT !.status = eMOD_S_STATE_STANDBY], retval |-> rv,
                        calls |-> <<>>, hung |-> FALSE,
                        writes |-> <<eMOD_S_STATE_PROCESSING, eMOD_S_STATE_STANDBY>>]
        s0 == [ss EXCEPT !.status = eMOD_S_STATE_PROCESSING]
    IN  IF s0.message[0] = s0.address \/ s0.message[0] = 0
        THEN IF s0.messageLast < 3
             THEN Drop(s0, -1)
             ELSE LET crc == CrcModbus(s0.message, s0.messageLast - 1, 65535)
                      \* the || stops at the first mismatch: one decrement or two
                      s1 == [s0 EXCEPT !.messageLast = s0.messageLast - 1]
                      s2 == [s0 EXCEPT !.messageLast = s0.messageLast - 2]
                  IN  IF s0.message[s0.messageLast] # HiByte(crc)
                      THEN Drop(s1, -1)
                      ELSE IF s0.message[s0.messageLast - 1] # LoByte(crc)
                      THEN Drop(s2, -1)
                      ELSE LET p == ModSlaveProcessCommand(s2, stale, pkt)
                               a == ModSlaveSendAnswer(p.ss, sendRet)
                           IN  IF p.hung
                               THEN [ss |-> p.ss, retval |-> p.retval, calls |-> p.calls,
                                     hung |-> TRUE, writes |-> <<eMOD_S_STATE_PROCESSING>>]
                               ELSE IF p.ss.message[0] # 0
                               THEN [ss |-> a.ss,
                                     retval |-> IF a.retval < 0 THEN a.retval ELSE p.retval,
                                     calls |-> p.calls \o a.calls, hung |-> FALSE,
                                     writes |-> <<eMOD_S_STATE_PROCESSING>> \o a.writes]
                               ELSE [ss |-> [p.ss EXCEPT !.status = eMOD_S_STATE_STANDBY],
                                     retval |-> p.retval, calls |-> p.calls, hung |-> FALSE,
                                     writes |-> <<eMOD_S_STATE_PROCESSING,
                                                  eMOD_S_STATE_STANDBY>>]
        ELSE Drop(s0, 0)

\* ModSlaveCheck that arms the receiver again while it is armed
CheckArmsAgain(ss, stale, pkt, sendRet, standbyRet) ==
    IF ss.status \in {eMOD_S_STATE_STANDBY, eMOD_S_STATE_RECEIVING}
    THEN [ss |-> [ss EXCEPT !.status = eMOD_S_STATE_RECEIVING], retval |-> standbyRet,
          calls |-> <<[fn |-> "pfStandby"]>>, hung |-> FALSE,
          writes |-> <<eMOD_S_STATE_RECEIVING>>]
    ELSE IF ss.status = eMOD_S_STATE_RECEIVED
    THEN ModSlaveParseMessage(ss, stale, pkt, sendRet)
    ELSE [ss |-> ss, retval |-> 0, calls |-> <<>>, hung |-> FALSE, writes |-> <<>>]

\* standbyRet is what pfStandby returns
ModSlaveCheck(ss, stale, pkt, sendRet, standbyRet) ==
    IF ss.status = eMOD_S_STATE_STANDBY
    THEN [ss |-> [ss EXCEPT !.status = eMOD_S_STATE_RECEIVING], retval |-> standbyRet,
          calls |-> <<[fn |-> "pfStandby"]>>, hung |-> FALSE,
          writes |-> <<eMOD_S_STATE_RECEIVING>>]
    ELSE IF ss.status = eMOD_S_STATE_RECEIVED
    THEN ModSlaveParseMessage(ss, stale, pkt, sendRet)
    ELSE [ss |-> ss, retval |-> 0, calls |-> <<>>, hung |-> FALSE, writes |-> <<>>]

\* status is stored first, then messageLast, then the bytes
ModSlaveRxDoneCallback(ss, msg, len) ==
    IF ss.status = eMOD_S_STATE_RECEIVING
    THEN IF len < 1 \/ len > MaxRxLen
         THEN [ss |-> [ss EXCEPT !.status = eMOD_S_STATE_STANDBY],
               calls |-> <<>>, writes |-> <<eMOD_S_STATE_STANDBY>>]
         ELSE [ss |-> [ss EXCEPT !.status = eMOD_S_STATE_RECEIVED,
                                 !.messageLast = len - 1,
                                 !.message = MemCpy(msg, len),
                                 !.tracked = len],
               calls |-> <<>>, writes |-> <<eMOD_S_STATE_RECEIVED>>]
    ELSE [ss |-> ss, calls |-> <<>>, writes |-> <<>>]

\* ModSlaveRxDoneCallback statement by statement
ModSlaveRxDoneStep(ss, msg, len, pc) ==
    CASE pc = 0 ->
            IF ss.status # eMOD_S_STATE_RECEIVING
            THEN [ss |-> ss, pc |-> RxReturned, writes |-> <<>>]
            ELSE IF len < 1 \/ len > MaxRxLen
            THEN [ss |-> [ss EXCEPT !.status = eMOD_S_STATE_STANDBY],
                  pc |-> RxReturned, writes |-> <<eMOD_S_STATE_STANDBY>>]
            ELSE [ss |-> [ss EXCEPT !.status = eMOD_S_STATE_RECEIVED],
                  pc |-> 1, writes |-> <<eMOD_S_STATE_RECEIVED>>]
      [] pc = 1 ->
            [ss |-> [ss EXCEPT !.messageLast = len - 1], pc |-> 2, writes |-> <<>>]
      [] pc = 2 ->
            [ss |-> [ss EXCEPT !.message = MemCpy(msg, len), !.tracked = len],
             pc |-> RxReturned, writes |-> <<>>]

ModSlaveRxErrorCallback(ss) ==
    IF ss.status = eMOD_S_STATE_RECEIVING
    THEN [ss |-> [ss EXCEPT !.status = eMOD_S_STATE_STANDBY],
          calls |-> <<>>, writes |-> <<eMOD_S_STATE_STANDBY>>]
    ELSE [ss |-> ss, calls |-> <<>>, writes |-> <<>>]

ModSlaveTxDoneCallback(ss) ==
    IF ss.status = eMOD_S_STATE_TRANSMITTING
    THEN [ss |-> [ss EXCEPT !.status = eMOD_S_STATE_STANDBY],
          calls |-> <<>>, writes |-> <<eMOD_S_STATE_STANDBY>>]
    ELSE [ss |-> ss, calls |-> <<>>, writes |-> <<>>]

(***************************************************************************)
(* Inputs of the master: the requests the application makes, what the      *)
(* driver callbacks return, and the frames the driver reports.             *)
(***************************************************************************)
RegBufName == "regBuf"
ErrCodeName == "errCode"

Request(a, f, n, r) == [modAddress |-> a, first |-> f, num |-> n, regs |-> r]

ReadRequests ==
    { Request(17, 107, 2, RegBufName),
      Request(247, 100, MaxReadRegs, RegBufName),
      Request(1, 0, 0, RegBufName),
      Request(1, 0, MaxReadRegs + 1, RegBufName),
      Request(1, 0, 1, NULL) }

WriteRequests ==
    { Request(1, 210, 2, "AllOnes"),
      Request(247, 100, MaxWriteRegs, "Ramp"),
      Request(1, 0, 0, "Ramp"),
      Request(1, 0, MaxWriteRegs + 1, "Ramp"),
      Request(1, 0, 1, NULL) }

\* requests made of a real slave: the last one ends at register 65535
PairReadRequests ==
    { Request(17, 107, 2, RegBufName),
      Request(247, 100, MaxReadRegs, RegBufName),
      Request(1, 65535, 1, RegBufName) }
PairWriteRequests ==
    { Request(1, 210, 2, "AllOnes"),
      Request(247, 100, MaxWriteRegs, "Ramp"),
      Request(1, 65535, 1, "Ramp") }
\* the request the timeout is followed on
ClockReadRequests == { Request(17, 107, 2, RegBufName) }

SendResults == {0, -1}      \* pfSend / pfSendAns: 0 or a negative value
DriverOk == {0}             \* a driver that takes every call
RecvResults == {0, -1}      \* pfReceive / pfStandby
ErrPtrs == {NULL, ErrCodeName}
CoarseSteps == {MODBUS_RX_TIMEOUT + 1}
FineSteps == {MODBUS_RX_TIMEOUT \div 2, MODBUS_RX_TIMEOUT \div 2 + 1}

\* frames as byte sequences
SeqCrc(s) == CrcModbus([k \in 0..(Len(s) - 1) |-> s[k + 1]], Len(s), 65535)
WithCrc(s) == LET c == SeqCrc(s) IN s \o <<LoByte(c), HiByte(c)>>
WithBadCrcLo(s) == LET c == SeqCrc(s) IN s \o <<U8(LoByte(c) + 1), HiByte(c)>>
WithBadCrcHi(s) == LET c == SeqCrc(s) IN s \o <<LoByte(c), U8(HiByte(c) + 128)>>
PadTo(s, n) == s \o [k \in 1..(n - Len(s)) |-> 0]
WordBytes(val, n) ==
    [k \in 1..(2 * n) |-> IF k % 2 = 1 THEN HiByte(val[(k - 1) \div 2])
                          ELSE LoByte(val[(k - 1) \div 2])]

\* register values of the replies the line delivers
ReplyValue == [i \in 0..(MaxReadRegs - 1) |-> U16(43981 + 259 * i)]

\* the reply body (no CRC) a slave would give to the request in flight
ExpectedReply(ms) ==
    IF ms.opCode = MODBUS_OPCODE_READ_OUT_REGS
    THEN <<ms.slaveAddr, ms.opCode, U8(2 * ms.numRegs)>> \o WordBytes(ReplyValue, ms.numRegs)
    ELSE <<ms.slaveAddr, ms.opCode, HiByte(ms.firstReg), LoByte(ms.firstReg),
           HiByte(ms.numRegs), LoByte(ms.numRegs)>>

\* the session fields that name the request in flight
RequestKey(ms) ==
    [slaveAddr |-> ms.slaveAddr, opCode |-> ms.opCode,
     firstReg |-> ms.firstReg, numRegs |-> ms.numRegs]

\* frames the driver may report in answer to the request ms names: the expected
\* reply and its damaged, truncated, extended and foreign variants
AnswersTo(ms) ==
         LET good == ExpectedReply(ms)
             n == Len(good)
             exc == <<ms.slaveAddr, ms.opCode + 128>>
             sized == { WithCrc(good),
                        WithBadCrcLo(good),
                        WithCrc(SubSeq(good, 1, n - 1)),
                        WithCrc(good \o <<0>>) }
         IN  IF ms.numRegs > 2 THEN sized
             ELSE sized \cup
             { WithBadCrcHi(good),
               WithCrc([good EXCEPT ![1] = U8(ms.slaveAddr + 1)]),
               WithCrc([good EXCEPT ![2] = IF ms.opCode = MODBUS_OPCODE_READ_OUT_REGS
                                           THEN MODBUS_OPCODE_READ_INP_REGS
                                           ELSE MODBUS_OPCODE_READ_OUT_REGS]),
               WithCrc([good EXCEPT ![2] = MODBUS_OPCODE_DIAGNOSTIC]),
               WithCrc([good EXCEPT ![3] = U8(good[3] + 1)]),
               WithCrc([good EXCEPT ![n] = U8(good[n] + 1)]),
               WithCrc(PadTo(good, MaxRxLen - 2)),
               WithCrc(exc \o <<MODBUS_ERR_ILLEGAL_ADDRESS>>),
               WithCrc(exc \o <<MODBUS_ERR_DEVICE_FAULT, 0>>),
               WithCrc(exc),
               WithCrc(<<ms.slaveAddr, U8(ms.opCode + 129), MODBUS_ERR_ILLEGAL_OPCODE>>),
               SubSeq(WithCrc(good), 1, 3),
               <<ms.slaveAddr, ms.opCode>>,
               <<ms.slaveAddr>>,
               <<>>,
               PadTo(good, MaxRxLen + 1) }

\* the requests of ReadRequests and WriteRequests the master accepts, each
\* with the frames that may answer it
AnswerTable ==
    { <<k, AnswersTo(k)>> : k \in
        { [slaveAddr |-> q.modAddress, opCode |-> MODBUS_OPCODE_READ_OUT_REGS,
           firstReg |-> q.first, numRegs |-> q.num] :
                q \in {q \in ReadRequests : q.num <= MaxReadRegs /\ q.regs # NULL} }
        \cup
        { [slaveAddr |-> q.modAddress, opCode |-> MODBUS_OPCODE_WRITE_MULTI_REGS,
           firstReg |-> q.first, numRegs |-> q.num] :
                q \in {q \in WriteRequests : q.num <= MaxWriteRegs /\ q.regs # NULL} } }

\* frames the driver reports to the master: answers to the request in flight
\* while it waits for one
MasterRxFrames(ms) ==
    IF ms.status # eMOD_M_STATE_WAITING_ANSWER
    THEN { <<>>, <<ms.slaveAddr, ms.opCode, 0, 0>> }
    ELSE (CHOOSE p \in AnswerTable : p[1] = RequestKey(ms))[2]

\* the one frame the driver reports while the timeout is followed
ClockRxFrames(ms) ==
    IF ms.status # eMOD_M_STATE_WAITING_ANSWER
    THEN { <<ms.slaveAddr, ms.opCode, 0, 0>> }
    ELSE { WithCrc(ExpectedReply(ms)) }

(***************************************************************************)
(* Inputs of the slave: its configuration, what the driver and the packet  *)
(* callback return, the bytes earlier frames left, and the frames the      *)
(* driver reports.                                                         *)
(***************************************************************************)
SlaveConfig(a, l) == [address |-> a, lastReg |-> l]
SlaveConfigs == { SlaveConfig(17, 400), SlaveConfig(247, 300), SlaveConfig(1, 65535) }
StandbyResults == {0, -1}
GetPacketResults ==
    { [r |-> 0, len |-> 0], [r |-> 0, len |-> 251], [r |-> 0, len |-> 252],
      [r |-> MODBUS_ERR_DEVICE_FAULT, len |-> 0] }
\* untracked bytes: all zero, or what a one-register write left at [4..6]
StaleMemories ==
    { [k \in 0..(MessageSize - 1) |-> 0],
      [k \in 0..(MessageSize - 1) |-> IF k = 5 THEN 1 ELSE IF k = 6 THEN 2 ELSE 0] }

ReadFrame(a, fn, first, num) ==
    <<a, fn, HiByte(first), LoByte(first), HiByte(num), LoByte(num)>>
\* a write of n registers holding 0x1234, 0x1337, ... with byte count bc
WriteFrame(a, first, n, bc) ==
    <<a, MODBUS_OPCODE_WRITE_MULTI_REGS, HiByte(first), LoByte(first), 0, n, bc>>
        \o WordBytes(Ramp, n)

\* request bodies (no CRC) for the station at address a
SlaveBodies(a, lastReg) ==
    { ReadFrame(a, MODBUS_OPCODE_READ_OUT_REGS, 107, 2),
      ReadFrame(a, MODBUS_OPCODE_READ_INP_REGS, 107, 2),
      ReadFrame(a, MODBUS_OPCODE_READ_OUT_REGS, 0, 0),
      ReadFrame(a, MODBUS_OPCODE_READ_OUT_REGS, 0, MaxReadRegs),
      ReadFrame(a, MODBUS_OPCODE_READ_OUT_REGS, 0, MaxReadRegs + 1),
      ReadFrame(a, MODBUS_OPCODE_READ_OUT_REGS, 107, 2) \o <<0>>,
      ReadFrame(a, MODBUS_OPCODE_READ_OUT_REGS, lastReg, 1),
      ReadFrame(a, MODBUS_OPCODE_READ_OUT_REGS, lastReg, 2),
      ReadFrame(a, MODBUS_OPCODE_READ_OUT_REGS, 299, 2),
      ReadFrame(a, MODBUS_OPCODE_READ_INP_REGS, 300, 2),
      ReadFrame(a, MODBUS_OPCODE_READ_OUT_REGS, 0, 256),
      <<a, MODBUS_OPCODE_READ_INP_REGS, 0, 107>>,
      WriteFrame(a, 210, 2, 4),
      WriteFrame(a, 210, 2, 5),
      WriteFrame(a, 210, 2, 4) \o <<0>>,
      WriteFrame(a, 210, 0, 0),
      WriteFrame(a, 0, MaxWriteRegs, 2 * MaxWriteRegs),
      WriteFrame(a, 210, 0, 0) \o <<0>>,
      <<a, MODBUS_OPCODE_WRITE_MULTI_REGS, 0, 210, 0, MaxWriteRegs + 1,
        2 * (MaxWriteRegs + 1)>>,
      <<a, MODBUS_OPCODE_WRITE_MULTI_REGS, 0, 210, 0, 2>>,
      <<a, MODBUS_OPCODE_WRITE_MULTI_REGS>>,
      WriteFrame(a, lastReg, 1, 2),
      WriteFrame(a, lastReg, 2, 4),
      WriteFrame(a, 299, 2, 4),
      WriteFrame(a, 300, 2, 4),
      <<a, MODBUS_OPCODE_WRITE_MULTI_REGS, 0, 210, 1, 2, 4, 18, 52, 19, 55>>,
      <<a, MODBUS_OPCODE_DIAGNOSTIC, 0, 0, 165, 55>>,
      <<a, MODBUS_OPCODE_DIAGNOSTIC, 0, 1, 165, 55>>,
      <<a, MODBUS_OPCODE_DIAGNOSTIC>>,
      PadTo(<<a, MODBUS_OPCODE_DIAGNOSTIC, 0, 0, 165>>, MaxRxLen - 2),
      PadTo(<<a, MODBUS_OPCODE_DIAGNOSTIC, 0, 0, 165>>, MaxRxLen - 3),
      <<a, MODBUS_OPCODE_READ_DATA_PACKET, 0>>,
      <<a, MODBUS_OPCODE_READ_DATA_PACKET>>,
      <<a, MODBUS_OPCODE_WRITE_DATA_PACKET, 2, 222, 173>>,
      <<a, MODBUS_OPCODE_WRITE_DATA_PACKET, 3, 222, 173>>,
      <<a, MODBUS_OPCODE_WRITE_DATA_PACKET, 0>>,
      PadTo(<<a, MODBUS_OPCODE_WRITE_DATA_PACKET, 251, 222>>, MaxRxLen - 3),
      PadTo(<<a, MODBUS_OPCODE_WRITE_DATA_PACKET, 252, 222>>, MaxRxLen - 2),
      <<a, 43, 14, 1>>,
      <<a, 144, 0, 0>>,
      <<a, 0, 0>>, <<a, 127, 0>>, <<a, 128, 0>>, <<a, 255, 0>> }

\* frames on the line of the station cfg: unicast, broadcast and foreign
\* requests, damaged ones, and lengths out of range
FramesFor(cfg) ==
         LET a == cfg.address
             read == ReadFrame(a, MODBUS_OPCODE_READ_OUT_REGS, 107, 2)
         IN  { WithCrc(b) : b \in SlaveBodies(a, cfg.lastReg) }
             \cup
             { WithCrc(b) : b \in
                 { ReadFrame(0, MODBUS_OPCODE_READ_OUT_REGS, 107, 2),
                   WriteFrame(0, 210, 2, 4),
                   WriteFrame(0, 210, 2, 5),
                   WriteFrame(0, cfg.lastReg, 1, 2),
                   WriteFrame(0, 299, 2, 4),
                   <<0, MODBUS_OPCODE_DIAGNOSTIC, 0, 0, 165, 55>>,
                   <<0, MODBUS_OPCODE_WRITE_DATA_PACKET, 2, 222, 173>>,
                   <<0, 43, 14, 1>>,
                   ReadFrame(U8(a + 1), MODBUS_OPCODE_READ_OUT_REGS, 107, 2) } }
             \cup
             { WithBadCrcLo(read), WithBadCrcHi(read),
               WithBadCrcLo(WriteFrame(0, 210, 2, 4)),
               WithCrc(WriteFrame(U8(a + 1), 210, 2, 4)),
               WithBadCrcLo(ReadFrame(U8(a + 1), MODBUS_OPCODE_READ_OUT_REGS, 107, 2)),
               <<U8(a + 1)>>, <<U8(a + 1), MODBUS_OPCODE_READ_OUT_REGS, 0>>,
               PadTo(<<U8(a + 1), MODBUS_OPCODE_WRITE_MULTI_REGS>>, MaxRxLen),
               <<a, MODBUS_OPCODE_READ_OUT_REGS, 0>>, <<a, MODBUS_OPCODE_READ_OUT_REGS>>,
               <<a>>, <<0>>, <<>>,
               PadTo(read, MaxRxLen + 1) }

\* every station with the frames on its line
FrameTable == { <<cfg, FramesFor(cfg)>> : cfg \in SlaveConfigs }

\* frames the driver reports to the slave
SlaveRxFrames(ss) ==
    IF ss.status # eMOD_S_STATE_RECEIVING
    THEN { <<>>, <<ss.address, MODBUS_OPCODE_READ_OUT_REGS, 0, 0>> }
    ELSE (CHOOSE p \in FrameTable : p[1] = SlaveConfig(ss.address, ss.lastReg))[2]

\* three of those frames: a read, a diagnostic echo of the greatest length the
\* driver may report, and an empty one
FewSlaveFrames(ss) ==
    IF ss.status # eMOD_S_STATE_RECEIVING
    THEN { <<ss.address, MODBUS_OPCODE_READ_OUT_REGS, 0, 0>> }
    ELSE { WithCrc(ReadFrame(ss.address, MODBUS_OPCODE_READ_OUT_REGS, 107, 2)),
           WithCrc(PadTo(<<ss.address, MODBUS_OPCODE_DIAGNOSTIC, 0, 0, 165>>, MaxRxLen - 2)),
           <<>> }

(***************************************************************************)
(* Initial state: both sessions zeroed and initialised (ModMasterInit,     *)
(* ModSlaveInit), the clock shortly before its 32-bit wrap.                *)
(***************************************************************************)
ZeroMessage == [k \in 0..(MessageSize - 1) |-> 0]

ModMasterInit ==
    [status |-> eMOD_M_STATE_STANDBY, rxStartTime |-> <<0, 0>>, slaveAddr |-> 0,
     opCode |-> 0, firstReg |-> 0, numRegs |-> 0, registers |-> NULL,
     messageLast |-> 0, message |-> ZeroMessage]

\* no call is in hand: the caller has taken the results of the last one
NoCall == [op |-> None, retval |-> Void, lastStatus |-> None, errCode |-> <<>>,
           calls |-> <<>>, writes |-> <<>>, frame |-> <<>>, pc |-> 0]
Idle == mOut.op = None /\ sOut.op = None

\* ss is the zeroed structure with the configuration filled in
ModSlaveInit(ss) ==
    IF ss.address = 0
    THEN [ss |-> ss, retval |-> -1]
    ELSE [ss |-> [ss EXCEPT !.status = eMOD_S_STATE_STANDBY], retval |-> 0]

SlaveInit(cfg) ==
    /\ sstack = ModSlaveInit([status |-> eMOD_S_STATE_STANDBY, address |-> cfg.address,
                              lastReg |-> cfg.lastReg, messageLast |-> 0,
                              message |-> ZeroMessage, tracked |-> 0]).ss
    /\ sHung = FALSE
    /\ sOut = NoCall

MasterInit ==
    /\ mstack = ModMasterInit
    /\ regBuf = [i \in 0..(MaxReadRegs - 1) |-> 0]
    /\ mOut = NoCall
    /\ now = <<65535, 65486>>
    /\ elapsed = 0
    /\ armedAt = 0
    /\ line = "idle"

(***************************************************************************)
(* Master actions.  A call is one atomic step; its results stay in mOut    *)
(* until the caller takes them (Return), and the next call starts after.   *)
(***************************************************************************)
MasterOut(name, r, rv, last, ec) ==
    [op |-> name, retval |-> rv, lastStatus |-> last, errCode |-> ec,
     calls |-> r.calls, writes |-> r.writes, frame |-> <<>>, pc |-> 0]

\* a request call with result r: a frame the driver took is on the line
MasterRequest(name, r) ==
    /\ Idle
    /\ mstack' = r.ms
    /\ mOut' = MasterOut(name, r, r.retval, None, <<>>)
    /\ line' = IF r.calls = <<>> THEN line
               ELSE IF r.retval = 0 THEN "request" ELSE "idle"
    /\ UNCHANGED <<regBuf, timeVars, slaveVars>>

MasterReadRegs(reqs, sendRets) ==
    \E req \in reqs, sendRet \in sendRets :
        MasterRequest("ReadRegs", ModMasterReadRegs(mstack, req, sendRet))

MasterWriteRegs(reqs, sendRets) ==
    \E req \in reqs, sendRet \in sendRets :
        MasterRequest("WriteRegs", ModMasterWriteRegs(mstack, req, sendRet))

MasterCheck ==
    \E errPtr \in ErrPtrs :
        LET r == ModMasterCheck(mstack, regBuf, now, errPtr)
        IN  /\ Idle
            /\ mstack' = r.ms
            /\ regBuf' = r.buf
            /\ mOut' = [op |-> "Check", retval |-> r.retval, lastStatus |-> r.lastStatus,
                        errCode |-> r.errCode, calls |-> <<>>, writes |-> r.writes,
                        frame |-> <<>>, pc |-> 0]
            /\ UNCHANGED <<timeVars, slaveVars, line>>

MasterTxDone(recvRets) ==
    \E recvRet \in recvRets :
        LET r == ModMasterTxDoneCallback(mstack, recvRet, now)
        IN  /\ Idle
            /\ mstack' = r.ms
            /\ mOut' = MasterOut("TxDone", r, Void, None, <<>>)
            /\ armedAt' = IF r.calls # <<>> THEN elapsed ELSE armedAt
            /\ UNCHANGED <<regBuf, now, elapsed, slaveVars, line>>

MasterRxDone(msg, len) ==
    LET r == ModMasterRxDoneCallback(mstack, msg, len)
    IN  /\ Idle
        /\ mstack' = r.ms
        /\ mOut' = MasterOut("RxDone", r, Void, None, <<>>)
        /\ UNCHANGED <<regBuf, timeVars, slaveVars>>

\* the driver reports a frame of its own making
MasterRxNoise(frames) ==
    \E msg \in frames :
        MasterRxDone(msg, Len(msg)) /\ UNCHANGED line

MasterRxError ==
    LET r == ModMasterRxErrorCallback(mstack)
    IN  /\ Idle
        /\ mstack' = r.ms
        /\ mOut' = MasterOut("RxError", r, Void, None, <<>>)
        /\ UNCHANGED <<regBuf, timeVars, slaveVars, line>>

(***************************************************************************)
(* Slave actions.  ModSlaveCheck runs in the foreground and cannot start   *)
(* while an earlier call of it has not returned; the driver callbacks run  *)
(* from interrupts.                                                        *)
(***************************************************************************)
\* the inputs ModSlaveCheck can read with the frame in hand: untracked bytes
\* for a register write, a packet for a packet read
StaleFor(ss) ==
    IF ss.status = eMOD_S_STATE_RECEIVED /\ ss.message[1] = MODBUS_OPCODE_WRITE_MULTI_REGS
    THEN StaleMemories ELSE {ZeroMessage}
PacketsFor(ss) ==
    IF ss.status = eMOD_S_STATE_RECEIVED /\ ss.message[1] = MODBUS_OPCODE_READ_DATA_PACKET
    THEN GetPacketResults ELSE {[r |-> 0, len |-> 0]}

SlaveOut(name, r, rv) ==
    [op |-> name, retval |-> rv, lastStatus |-> None, errCode |-> <<>>,
     calls |-> r.calls, writes |-> r.writes, frame |-> <<>>, pc |-> 0]

SlaveCheck(sendRets, standbyRets) ==
    \E stale \in StaleFor(sstack), pkt \in PacketsFor(sstack),
       sendRet \in sendRets, standbyRet \in standbyRets :
        LET r == ModSlaveCheck(sstack, stale, pkt, sendRet, standbyRet)
            sent == \E k \in DOMAIN r.calls : r.calls[k].fn = "pfSendAns"
        IN  /\ Idle
            /\ ~sHung
            /\ sstack' = r.ss
            /\ sHung' = r.hung
            /\ sOut' = SlaveOut("Check", r, r.retval)
            /\ line' = IF sent THEN (IF r.retval >= 0 \/ sendRet >= 0 THEN "reply" ELSE "idle")
                       ELSE line
            /\ UNCHANGED <<mstack, regBuf, mOut, timeVars>>

SlaveRxDone(msg, len) ==
    LET r == ModSlaveRxDoneCallback(sstack, msg, len)
    IN  /\ Idle
        /\ sstack' = r.ss
        /\ sOut' = SlaveOut("RxDone", r, Void)
        /\ UNCHANGED <<mstack, regBuf, mOut, timeVars, sHung>>

\* the driver reports a frame of its own making
SlaveRxNoise(frames) ==
    \E msg \in frames :
        SlaveRxDone(msg, Len(msg)) /\ UNCHANGED line

SlaveRxError ==
    LET r == ModSlaveRxErrorCallback(sstack)
    IN  /\ Idle
        /\ sstack' = r.ss
        /\ sOut' = SlaveOut("RxError", r, Void)
        /\ UNCHANGED <<mstack, regBuf, mOut, timeVars, sHung, line>>

SlaveTxDone ==
    LET r == ModSlaveTxDoneCallback(sstack)
    IN  /\ Idle
        /\ sstack' = r.ss
        /\ sOut' = SlaveOut("TxDone", r, Void)
        /\ UNCHANGED <<mstack, regBuf, mOut, timeVars, sHung, line>>

(***************************************************************************)
(* The line between the two stations: the frame a driver took is reported  *)
(* to the other station byte for byte, once.                               *)
(***************************************************************************)
SlaveRxLine ==
    /\ line = "request"
    /\ SlaveRxDone(Bytes(mstack.message, mstack.messageLast + 1), mstack.messageLast + 1)
    /\ line' = "idle"

MasterRxLine ==
    /\ line = "reply"
    /\ MasterRxDone(Bytes(sstack.message, sstack.messageLast + 1), sstack.messageLast + 1)
    /\ line' = "idle"

\* the caller takes the results of the last call
Return ==
    /\ ~Idle
    /\ mOut' = NoCall
    /\ sOut' = NoCall
    /\ UNCHANGED <<mstack, regBuf, timeVars, sstack, sHung, line>>

\* the time source advances by d ms
Tick(d) ==
    /\ Idle
    /\ elapsed + d <= MaxElapsed
    /\ now' = TimeAdd(now, d)
    /\ elapsed' = elapsed + d
    /\ UNCHANGED <<armedAt, masterVars, slaveVars, line>>

TickCoarse == \E d \in CoarseSteps : Tick(d)
TickFine == \E d \in FineSteps : Tick(d)

(***************************************************************************)
(* The rx-done callbacks statement by statement.  The driver may call them *)
(* from a context the foreground can preempt (the headers leave the        *)
(* context to the driver: "can be called from ISR"), so a poll may run     *)
(* between two statements of a callback.                                   *)
(***************************************************************************)
\* an rx-done callback has been entered and has not returned
InRx(out) == out.op = "RxDone" /\ out.pc \in 1..(RxReturned - 1)

MasterRxEnter(frames) ==
    \E msg \in frames :
        LET r == ModMasterRxDoneStep(mstack, msg, Len(msg), 0)
        IN  /\ Idle
            /\ mstack' = r.ms
            /\ mOut' = [NoCall EXCEPT !.op = "RxDone", !.writes = r.writes,
                                      !.frame = msg, !.pc = r.pc]
            /\ UNCHANGED <<regBuf, timeVars, slaveVars, line>>

MasterRxStep ==
    LET r == ModMasterRxDoneStep(mstack, mOut.frame, Len(mOut.frame), mOut.pc)
    IN  /\ InRx(mOut)
        /\ mstack' = r.ms
        /\ mOut' = [mOut EXCEPT !.writes = @ \o r.writes, !.pc = r.pc]
        /\ UNCHANGED <<regBuf, timeVars, slaveVars, line>>

\* the foreground polls while the callback is under way
MasterCheckPreempt ==
    \E errPtr \in ErrPtrs :
        LET r == ModMasterCheck(mstack, regBuf, now, errPtr)
        IN  /\ InRx(mOut)
            /\ mstack' = r.ms
            /\ regBuf' = r.buf
            /\ mOut' = [mOut EXCEPT !.writes = @ \o r.writes]
            /\ UNCHANGED <<timeVars, slaveVars, line>>

SlaveRxEnter(frames) ==
    \E msg \in frames :
        LET r == ModSlaveRxDoneStep(sstack, msg, Len(msg), 0)
        IN  /\ Idle
            /\ sstack' = r.ss
            /\ sOut' = [NoCall EXCEPT !.op = "RxDone", !.writes = r.writes,
                                      !.frame = msg, !.pc = r.pc]
            /\ UNCHANGED <<mstack, regBuf, mOut, timeVars, sHung, line>>

SlaveRxStep ==
    LET r == ModSlaveRxDoneStep(sstack, sOut.frame, Len(sOut.frame), sOut.pc)
    IN  /\ InRx(sOut)
        /\ sstack' = r.ss
        /\ sOut' = [sOut EXCEPT !.writes = @ \o r.writes, !.pc = r.pc]
        /\ UNCHANGED <<mstack, regBuf, mOut, timeVars, sHung, line>>

SlaveCheckPreempt ==
    \E stale \in StaleFor(sstack), pkt \in PacketsFor(sstack) :
        LET r == ModSlaveCheck(sstack, stale, pkt, 0, 0)
        IN  /\ InRx(sOut)
            /\ ~sHung
            /\ sstack' = r.ss
            /\ sHung' = r.hung
            /\ sOut' = [sOut EXCEPT !.writes = @ \o r.writes, !.calls = @ \o r.calls]
            /\ UNCHANGED <<mstack, regBuf, mOut, timeVars, line>>

\* the caller takes the results of a call that has returned
ReturnIsr ==
    /\ ~InRx(mOut)
    /\ ~InRx(sOut)
    /\ Return

(***************************************************************************)
(* The tx-done callback statement by statement, with polls in between.     *)
(***************************************************************************)
\* a tx-done callback has been entered and has not returned
InTx(out) == out.op = "TxDone" /\ out.pc \in 1..(RxReturned - 1)

MasterTxEnter ==
    LET r == ModMasterTxDoneStep(mstack, 0, now, 0)
    IN  /\ Idle
        /\ mstack' = r.ms
        /\ mOut' = [NoCall EXCEPT !.op = "TxDone", !.writes = r.writes, !.pc = r.pc]
        /\ armedAt' = IF r.pc = 1 THEN elapsed ELSE armedAt
        /\ UNCHANGED <<regBuf, now, elapsed, slaveVars, line>>

MasterTxStep(recvRets) ==
    \E recvRet \in recvRets :
        LET r == ModMasterTxDoneStep(mstack, recvRet, now, mOut.pc)
        IN  /\ InTx(mOut)
            /\ mstack' = r.ms
            /\ mOut' = [mOut EXCEPT !.writes = @ \o r.writes, !.calls = @ \o r.calls,
                                    !.pc = r.pc]
            /\ UNCHANGED <<regBuf, timeVars, slaveVars, line>>

\* the foreground polls while the callback is under way
MasterCheckDuringTx ==
    \E errPtr \in ErrPtrs :
        LET r == ModMasterCheck(mstack, regBuf, now, errPtr)
        IN  /\ InTx(mOut)
            /\ mstack' = r.ms
            /\ regBuf' = r.buf
            /\ mOut' = [mOut EXCEPT !.writes = @ \o r.writes, !.retval = r.retval,
                                    !.lastStatus = r.lastStatus]
            /\ UNCHANGED <<timeVars, slaveVars, line>>

\* the caller takes the results of a call that has returned
ReturnTx ==
    /\ ~InTx(mOut)
    /\ Return

(***************************************************************************)
(* Polling for ever.  The foreground calls ModMasterCheck again and again; *)
(* the callbacks interrupt it, also between its read of the status and the *)
(* switch on the value read; between two polls the time source advances by *)
(* one poll interval, which is longer than the timeout and shorter than    *)
(* the range of MODBUS_TIME_T.                                             *)
(***************************************************************************)
\* a quarter of the range of the 32-bit tick type
PollInterval == (65536 \div 4) * 65536

\* an rx callback arrives after ModMasterCheck has read the status
MasterCheckInterrupted(frames) ==
    \E errPtr \in ErrPtrs,
       cb \in {ModMasterRxErrorCallback(mstack)}
                \cup {ModMasterRxDoneCallback(mstack, msg, Len(msg)) : msg \in frames} :
        LET r == ModMasterCheckInterrupted(mstack, cb.ms, regBuf, now, errPtr)
        IN  /\ Idle
            /\ cb.writes # <<>>
            /\ mstack' = r.ms
            /\ regBuf' = r.buf
            /\ mOut' = [op |-> "Check", retval |-> r.retval, lastStatus |-> r.lastStatus,
                        errCode |-> r.errCode, calls |-> <<>>,
                        writes |-> cb.writes \o r.writes, frame |-> <<>>, pc |-> 0]
            /\ UNCHANGED <<timeVars, slaveVars, line>>

\* the caller takes the result of a poll and lets a poll interval pass (the
\* ms since start-up are not followed that far)
PollWait ==
    /\ mOut.op = "Check"
    /\ mOut' = NoCall
    /\ now' = TimeAdd(now, PollInterval)
    /\ UNCHANGED <<mstack, regBuf, elapsed, armedAt, slaveVars, line>>

(***************************************************************************)
(* Specifications.                                                         *)
(*   SpecMaster: the master against any driver and any caller.             *)
(*   SpecClock:  the master's timeout against a clock of fine steps.       *)
(*   SpecSlave:  the slave against any driver.                             *)
(*   SpecBoth:   both engines, each against a driver that calls back at    *)
(*               any time.                                                 *)
(*   Spec:       a master and a slave joined by a clean line.              *)
(*   SpecIsr:    both engines, the rx-done callbacks running statement by  *)
(*               statement with polls in between.                          *)
(*   SpecLive:   the master polled for ever while the time source runs on. *)
(***************************************************************************)
\* the requests of a set that address the slave on the line
ToStation(reqs) == {q \in reqs : q.modAddress = sstack.address}

InitMaster == MasterInit /\ SlaveInit(SlaveConfig(17, 400))
Init == MasterInit /\ \E cfg \in SlaveConfigs : SlaveInit(cfg)

NextMaster ==
    \/ MasterReadRegs(ReadRequests, SendResults)
    \/ MasterWriteRegs(WriteRequests, SendResults)
    \/ MasterCheck
    \/ MasterTxDone(RecvResults)
    \/ MasterRxNoise(MasterRxFrames(mstack))
    \/ MasterRxError
    \/ TickCoarse
    \/ Return
SpecMaster == InitMaster /\ [][NextMaster]_vars

NextClock ==
    \/ MasterReadRegs(ClockReadRequests, DriverOk)
    \/ MasterCheck
    \/ MasterTxDone(DriverOk)
    \/ MasterRxNoise(ClockRxFrames(mstack))
    \/ TickFine
    \/ Return
SpecClock == InitMaster /\ [][NextClock]_vars

NextSlave ==
    \/ SlaveCheck(SendResults, StandbyResults)
    \/ SlaveRxNoise(SlaveRxFrames(sstack))
    \/ SlaveRxError
    \/ SlaveTxDone
    \/ Return
SpecSlave == Init /\ [][NextSlave]_vars

NextBoth ==
    \/ MasterReadRegs(ClockReadRequests, DriverOk)
    \/ MasterCheck
    \/ MasterTxDone(DriverOk)
    \/ MasterRxNoise(ClockRxFrames(mstack))
    \/ MasterRxError
    \/ TickCoarse
    \/ SlaveCheck(DriverOk, DriverOk)
    \/ SlaveRxNoise(FewSlaveFrames(sstack))
    \/ SlaveRxError
    \/ SlaveTxDone
    \/ Return
SpecBoth == InitMaster /\ [][NextBoth]_vars

Next ==
    \/ MasterReadRegs(ToStation(PairReadRequests), DriverOk)
    \/ MasterWriteRegs(ToStation(PairWriteRequests), DriverOk)
    \/ MasterCheck
    \/ MasterTxDone(DriverOk)
    \/ MasterRxLine
    \/ SlaveCheck(DriverOk, DriverOk)
    \/ SlaveRxLine
    \/ SlaveTxDone
    \/ Return
Spec == Init /\ [][Next]_vars

NextIsr ==
    \/ MasterReadRegs(ClockReadRequests, DriverOk)
    \/ MasterTxDone(RecvResults)
    \/ MasterCheck
    \/ MasterRxEnter(ClockRxFrames(mstack))
    \/ MasterRxStep
    \/ MasterCheckPreempt
    \/ TickCoarse
    \/ SlaveCheck(DriverOk, DriverOk)
    \/ SlaveRxEnter(FewSlaveFrames(sstack))
    \/ SlaveRxStep
    \/ SlaveCheckPreempt
    \/ SlaveTxDone
    \/ ReturnIsr
SpecIsr == InitMaster /\ [][NextIsr]_vars

NextLive ==
    \/ MasterReadRegs(ClockReadRequests, SendResults)
    \/ MasterTxDone(RecvResults)
    \/ MasterRxNoise(ClockRxFrames(mstack))
    \/ MasterRxError
    \/ MasterCheck
    \/ MasterCheckInterrupted(ClockRxFrames(mstack))
    \/ PollWait
    \/ Return
\* every call and every return changes which call is under way
callVars == <<mOut.op, sOut.op>>
\* strong fairness of the poll, SF_callVars(MasterCheck), with the enabling
\* condition written out: ModMasterCheck can be called whenever no call is
\* under way
PollFair == <>[](~Idle) \/ []<><<MasterCheck>>_callVars
\* the foreground polls again and again, every call returns, and time passes
\* between polls; requests and callbacks are under no obligation
SpecLive ==
    /\ InitMaster
    /\ [][NextLive]_vars
    /\ PollFair
    /\ WF_callVars(Return \/ PollWait)
    /\ SF_callVars(PollWait)

\* frames for the CRC check of the master: the expected reply and sequences of
\* 0, 1 and 253 bytes, each followed by its CRC
RoundTripAnswers(ms) ==
    IF ms.status # eMOD_M_STATE_WAITING_ANSWER
    THEN { <<ms.slaveAddr, ms.opCode, 0, 0>> }
    ELSE LET good == ExpectedReply(ms)
         IN  { WithCrc(good), WithCrc(<<>>), WithCrc(<<ms.slaveAddr>>),
               WithCrc(PadTo(good, MaxRxLen - 4)) }

\* the same for the slave: unicast and broadcast requests, sequences of 1 and
\* 253 bytes
RoundTripRequests(ss) ==
    IF ss.status # eMOD_S_STATE_RECEIVING
    THEN { <<ss.address, MODBUS_OPCODE_READ_OUT_REGS, 0, 0>> }
    ELSE LET read == ReadFrame(ss.address, MODBUS_OPCODE_READ_OUT_REGS, 107, 2)
         IN  { WithCrc(read), WithCrc(<<ss.address>>),
               WithCrc(WriteFrame(0, 210, 2, 4)),
               WithCrc(PadTo(<<ss.address, MODBUS_OPCODE_DIAGNOSTIC, 0, 0, 165>>,
                             MaxRxLen - 4)) }

\* both engines, each fed frames that carry the CRC of their first bytes
NextCrc ==
    \/ MasterReadRegs(ClockReadRequests, DriverOk)
    \/ MasterCheck
    \/ MasterTxDone(DriverOk)
    \/ MasterRxNoise(RoundTripAnswers(mstack))
    \/ SlaveCheck(DriverOk, DriverOk)
    \/ SlaveRxNoise(RoundTripRequests(sstack))
    \/ SlaveTxDone
    \/ Return
SpecCrc == InitMaster /\ [][NextCrc]_vars

\* the master with a tx-done callback that polls may interleave with
NextTx ==
    \/ MasterReadRegs(ClockReadRequests, DriverOk)
    \/ MasterTxEnter
    \/ MasterTxStep(RecvResults)
    \/ MasterCheckDuringTx
    \/ MasterCheck
    \/ MasterRxNoise(ClockRxFrames(mstack))
    \/ MasterRxError
    \/ TickCoarse
    \/ ReturnTx
SpecTx == InitMaster /\ [][NextTx]_vars

(***************************************************************************)
(* The slave polled for ever by a driver whose calls succeed and that      *)
(* answers every arming with rx-done or rx-error and every send with       *)
(* tx-done.                                                                *)
(***************************************************************************)
\* frames of 0, 8, 13, 257 and 258 bytes: none, a read, a damaged read, a read
\* for another station, a broadcast write and two diagnostic echoes
LiveSlaveFrames(ss) ==
    IF ss.status # eMOD_S_STATE_RECEIVING
    THEN { <<ss.address, MODBUS_OPCODE_READ_OUT_REGS, 0, 0>> }
    ELSE LET read == ReadFrame(ss.address, MODBUS_OPCODE_READ_OUT_REGS, 107, 2)
         IN  { <<>>, WithCrc(read), WithBadCrcLo(read),
               WithCrc(ReadFrame(U8(ss.address + 1), MODBUS_OPCODE_READ_OUT_REGS, 107, 2)),
               WithCrc(WriteFrame(0, 210, 2, 4)),
               WithCrc(PadTo(<<ss.address, MODBUS_OPCODE_DIAGNOSTIC, 0, 0, 165>>,
                             MaxRxLen - 2)),
               PadTo(read, MaxRxLen + 1) }

NextSlaveLive ==
    \/ SlaveCheck(DriverOk, DriverOk)
    \/ SlaveRxNoise(LiveSlaveFrames(sstack))
    \/ SlaveRxError
    \/ SlaveTxDone
    \/ Return

\* strong fairness of the poll, with the enabling condition written out:
\* ModSlaveCheck can be called whenever no call is under way
SlavePollFair == <>[](~Idle) \/ []<><<SlaveCheck(DriverOk, DriverOk)>>_callVars
\* the same for the driver: an armed receiver is answered by rx-done or
\* rx-error, a reply handed over by tx-done
RxFair ==
    \/ <>[](~(Idle /\ sstack.status = eMOD_S_STATE_RECEIVING))
    \/ []<><<sstack.status = eMOD_S_STATE_RECEIVING
                /\ sOut'.op \in {"RxDone", "RxError"}>>_callVars
TxFair ==
    \/ <>[](~(Idle /\ sstack.status = eMOD_S_STATE_TRANSMITTING))
    \/ []<><<sstack.status = eMOD_S_STATE_TRANSMITTING /\ sOut'.op = "TxDone">>_callVars

SpecSlaveLive ==
    /\ InitMaster
    /\ [][NextSlaveLive]_vars
    /\ SlavePollFair
    /\ RxFair
    /\ TxFair
    /\ WF_callVars(Return)

(***************************************************************************)
(* Properties.  Frames are byte sequences indexed from 1: byte k of a      *)
(* frame is message[k - 1].                                                *)
(***************************************************************************)
\* the frame the driver delivered: message[0 .. messageLast]
FrameInHand(message, messageLast) == Bytes(message, messageLast + 1)
\* the last two bytes of f are the CRC of the bytes before them, low byte first
CrcValid(f) ==
    LET c == SeqCrc(SubSeq(f, 1, Len(f) - 2))
    IN  f[Len(f) - 1] = LoByte(c) /\ f[Len(f)] = HiByte(c)

\* C1: in every master status other than Standby, ModMasterReadRegs and
\* ModMasterWriteRegs return Busy (-1), leave every field of the session as it
\* was and do not call the send function.
C1_BusyGuard ==
    \A st \in modMasterState_t \ {eMOD_M_STATE_STANDBY}, sendRet \in SendResults :
        LET m == [mstack EXCEPT !.status = st]
            busy == [ms |-> m, retval |-> -1, calls |-> <<>>, writes |-> <<>>]
        IN  /\ \A req \in ReadRequests : ModMasterReadRegs(m, req, sendRet) = busy
            /\ \A req \in WriteRequests : ModMasterWriteRegs(m, req, sendRet) = busy

\* a request was made while an answer was waiting to be parsed, and was refused
C1_Witness ==
    /\ mOut.op \in {"ReadRegs", "WriteRegs"}
    /\ mOut.retval = -1
    /\ mOut.calls = <<>>
    /\ mstack.status = eMOD_M_STATE_RECEIVED

\* C2: in Standby with a non-null buffer, ReadRegs of 1 and of 125 registers is
\* accepted (status Transmitting) and of 0 and of 126 returns BadParam (-2) with
\* the status still Standby and no send; WriteRegs likewise for 1, 123 and 0, 124.
C2_BoundaryCounts ==
    mstack.status = eMOD_M_STATE_STANDBY =>
        LET rd(n) == ModMasterReadRegs(mstack, Request(1, 0, n, RegBufName), 0)
            wr(n) == ModMasterWriteRegs(mstack, Request(1, 0, n, "Ramp"), 0)
            accepted(r) == r.retval = 0 /\ r.ms.status = eMOD_M_STATE_TRANSMITTING
            refused(r) == /\ r.retval = -2
                          /\ r.ms.status = eMOD_M_STATE_STANDBY
                          /\ r.calls = <<>>
        IN  /\ accepted(rd(1)) /\ accepted(rd(MaxReadRegs))
            /\ refused(rd(0)) /\ refused(rd(MaxReadRegs + 1))
            /\ accepted(wr(1)) /\ accepted(wr(MaxWriteRegs))
            /\ refused(wr(0)) /\ refused(wr(MaxWriteRegs + 1))

\* C3: when ModMasterCheck returns 1 the status is Standby and lastStatus is
\* one of Standby, TimedOut, Corrupted, ErrReported, Processed, HwError; when
\* it returns 0 lastStatus is Transmitting or WaitingAnswer and the status is
\* the one the call found.  In every state the master can reach.
C3_CheckVerdict ==
    \A errPtr \in ErrPtrs :
        LET r == ModMasterCheck(mstack, regBuf, now, errPtr)
        IN  /\ r.retval \in {0, 1}
            /\ r.retval = 1 =>
                /\ r.ms.status = eMOD_M_STATE_STANDBY
                /\ r.lastStatus \in
                     {eMOD_M_STATE_STANDBY, eMOD_M_STATE_TIMED_OUT, eMOD_M_STATE_CORRUPTED,
                      eMOD_M_STATE_ERR_REPORTED, eMOD_M_STATE_PROCESSED,
                      eMOD_M_STATE_HW_ERROR}
            /\ r.retval = 0 =>
                /\ r.lastStatus \in {eMOD_M_STATE_TRANSMITTING, eMOD_M_STATE_WAITING_ANSWER}
                /\ r.ms.status = mstack.status
                /\ r.lastStatus = mstack.status

\* a poll has reported a corrupted answer and left the session in Standby
C3_Witness ==
    /\ mOut.op = "Check"
    /\ mOut.retval = 1
    /\ mOut.lastStatus = eMOD_M_STATE_CORRUPTED
    /\ mstack.status = eMOD_M_STATE_STANDBY

\* C4: a poll that finds WaitingAnswer reports TimedOut, returns 1 and goes to
\* Standby exactly when more than 100 ms have passed since the receiver was
\* armed, also when the time counter wrapped in between; otherwise it returns 0
\* and leaves WaitingAnswer.
C4_Timeout ==
    mstack.status = eMOD_M_STATE_WAITING_ANSWER =>
        \A errPtr \in ErrPtrs :
            LET r == ModMasterCheck(mstack, regBuf, now, errPtr)
            IN  IF elapsed - armedAt > MODBUS_RX_TIMEOUT
                THEN /\ r.retval = 1
                     /\ r.lastStatus = eMOD_M_STATE_TIMED_OUT
                     /\ r.ms.status = eMOD_M_STATE_STANDBY
                ELSE /\ r.retval = 0
                     /\ r.lastStatus = eMOD_M_STATE_WAITING_ANSWER
                     /\ r.ms.status = eMOD_M_STATE_WAITING_ANSWER

\* a poll reported the timeout 101 ms after an arming before the wrap of the
\* counter, itself being after the wrap
C4_Witness ==
    /\ mOut.op = "Check"
    /\ mOut.lastStatus = eMOD_M_STATE_TIMED_OUT
    /\ mstack.rxStartTime[1] = 65535
    /\ now[1] = 0
    /\ elapsed - armedAt = MODBUS_RX_TIMEOUT + 1

\* C7: a poll from Received reports Corrupted if the first byte of the frame
\* is not the requested address, or the frame has fewer than 4 bytes, or its
\* last two bytes are not the CRC (low, high) of the bytes before, or the
\* function code without bit 7 is not the requested one; if all those pass and
\* bit 7 is set it reports ErrReported with errCode the frame's third byte, or
\* Corrupted if the frame has no third byte before the CRC.
C7_ReplyClassification ==
    mstack.status = eMOD_M_STATE_RECEIVED =>
        \A errPtr \in ErrPtrs :
            LET f == FrameInHand(mstack.message, mstack.messageLast)
                r == ModMasterCheck(mstack, regBuf, now, errPtr)
                bad == \/ f[1] # mstack.slaveAddr
                       \/ Len(f) < 4
                       \/ ~CrcValid(f)
                       \/ f[2] % 128 # mstack.opCode
            IN  IF bad
                THEN r.lastStatus = eMOD_M_STATE_CORRUPTED /\ r.errCode = <<>>
                ELSE f[2] >= 128 =>
                        IF Len(f) >= 5
                        THEN /\ r.lastStatus = eMOD_M_STATE_ERR_REPORTED
                             /\ r.errCode = IF errPtr = NULL THEN <<>> ELSE <<f[3]>>
                        ELSE r.lastStatus = eMOD_M_STATE_CORRUPTED /\ r.errCode = <<>>

\* a poll reported the exception ILLEGAL_ADDRESS a frame carried
C7_Witness ==
    /\ mOut.op = "Check"
    /\ mOut.lastStatus = eMOD_M_STATE_ERR_REPORTED
    /\ mOut.errCode = <<MODBUS_ERR_ILLEGAL_ADDRESS>>
    /\ mstack.message[1] = mstack.opCode + 128

\* C8: a reply that passes address, length, CRC and function code and is not
\* an exception is reported Processed exactly when, for a read, its byte count
\* is 2 * numRegs and it has at least 3 + 2 * numRegs bytes before the CRC, the
\* buffer then holding the big-endian words of the frame; for a write-multiple,
\* when it has the 4 echo bytes and they are the request's first register and
\* count.  Every other such reply is reported Corrupted.
C8_ReplyValidation ==
    mstack.status = eMOD_M_STATE_RECEIVED =>
        LET f == FrameInHand(mstack.message, mstack.messageLast)
            n == mstack.numRegs
            r == ModMasterCheck(mstack, regBuf, now, NULL)
            framed == /\ f[1] = mstack.slaveAddr
                      /\ Len(f) >= 4
                      /\ CrcValid(f)
                      /\ f[2] = mstack.opCode
            good == CASE f[2] = MODBUS_OPCODE_READ_OUT_REGS ->
                            Len(f) - 2 >= 3 + 2 * n /\ f[3] = 2 * n
                      [] f[2] = MODBUS_OPCODE_WRITE_MULTI_REGS ->
                            /\ Len(f) - 2 >= 6
                            /\ 256 * f[3] + f[4] = mstack.firstReg
                            /\ 256 * f[5] + f[6] = n
                      [] OTHER -> FALSE
        IN  framed =>
                IF good
                THEN /\ r.lastStatus = eMOD_M_STATE_PROCESSED
                     /\ f[2] = MODBUS_OPCODE_READ_OUT_REGS =>
                            \A i \in 0..(n - 1) : r.buf[i] = 256 * f[4 + 2 * i] + f[5 + 2 * i]
                ELSE r.lastStatus = eMOD_M_STATE_CORRUPTED

\* a poll accepted a read reply of 125 registers and stored the last of them
C8_Witness ==
    /\ mOut.op = "Check"
    /\ mOut.lastStatus = eMOD_M_STATE_PROCESSED
    /\ mstack.opCode = MODBUS_OPCODE_READ_OUT_REGS
    /\ mstack.numRegs = MaxReadRegs
    /\ regBuf[MaxReadRegs - 1] = ReplyValue[MaxReadRegs - 1]

\* C5: a master tx-done in a status other than Transmitting, a master rx-done
\* or rx-error in a status other than WaitingAnswer, a slave rx-done or
\* rx-error in a status other than Receiving and a slave tx-done in a status
\* other than Transmitting leave the session as it was (status, message,
\* messageLast, rxStartTime and all else) and call no driver function.
C5_SpuriousCallbacks ==
    LET same(r, stack) == r = [ms |-> stack, calls |-> <<>>, writes |-> <<>>]
        sameS(r, stack) == r = [ss |-> stack, calls |-> <<>>, writes |-> <<>>]
    IN  /\ \A st \in modMasterState_t \ {eMOD_M_STATE_TRANSMITTING}, recvRet \in RecvResults :
            LET m == [mstack EXCEPT !.status = st]
            IN  same(ModMasterTxDoneCallback(m, recvRet, now), m)
        /\ \A st \in modMasterState_t \ {eMOD_M_STATE_WAITING_ANSWER} :
            LET m == [mstack EXCEPT !.status = st]
            IN  /\ same(ModMasterRxErrorCallback(m), m)
                /\ \A msg \in {<<>>, <<m.slaveAddr, m.opCode, 0, 0>>, PadTo(<<>>, MaxRxLen)} :
                        same(ModMasterRxDoneCallback(m, msg, Len(msg)), m)
        /\ \A st \in modSlaveState_t \ {eMOD_S_STATE_RECEIVING} :
            LET m == [sstack EXCEPT !.status = st]
            IN  /\ sameS(ModSlaveRxErrorCallback(m), m)
                /\ \A msg \in {<<>>, <<m.address, MODBUS_OPCODE_DIAGNOSTIC, 0, 0>>, PadTo(<<>>, MaxRxLen)} :
                        sameS(ModSlaveRxDoneCallback(m, msg, Len(msg)), m)
        /\ \A st \in modSlaveState_t \ {eMOD_S_STATE_TRANSMITTING} :
            LET m == [sstack EXCEPT !.status = st]
            IN  sameS(ModSlaveTxDoneCallback(m), m)

\* the driver reported a frame more than 100 ms after the arming, the master
\* being back in Standby with its request still in message
C5_Witness ==
    /\ mOut.op = "RxDone"
    /\ mOut.writes = <<>>
    /\ mstack.status = eMOD_M_STATE_STANDBY
    /\ mstack.messageLast = 7
    /\ elapsed - armedAt > MODBUS_RX_TIMEOUT

\* the request of a set that the master has in its session fields
RequestInFlight(reqs) ==
    CHOOSE q \in reqs : /\ q.modAddress = mstack.slaveAddr
                        /\ q.first = mstack.firstReg
                        /\ q.num = mstack.numRegs

\* C6: for a valid read or write-multiple request the master's frame makes the
\* slave call get_reg / set_reg once for each register first..first+num-1
\* (set_reg with the master's values) and send a reply, and that reply makes
\* ModMasterCheck report Processed, the buffer of a read holding what get_reg
\* returned.
C6_Conjugacy ==
    LET n == mstack.numRegs
        first == mstack.firstReg
    IN  /\ ~sHung
        /\ (sOut.op = "Check" /\ sOut.writes # <<>>
                /\ sOut.writes[1] = eMOD_S_STATE_PROCESSING) =>
                /\ sOut.retval = 0
                /\ Len(sOut.calls) = 2
                /\ sOut.calls[2].fn = "pfSendAns"
                /\ sOut.calls[1] =
                     IF mstack.opCode = MODBUS_OPCODE_READ_OUT_REGS
                     THEN [fn |-> "pfGetReg", first |-> first, count |-> n]
                     ELSE [fn |-> "pfSetReg", first |-> first,
                           vals |-> [t \in 1..n |->
                                AppMemory(RequestInFlight(PairWriteRequests).regs)[t - 1]]]
        /\ (mOut.op = "Check" /\ mOut.lastStatus \notin
                {eMOD_M_STATE_STANDBY, eMOD_M_STATE_TRANSMITTING,
                 eMOD_M_STATE_WAITING_ANSWER}) =>
                /\ mOut.lastStatus = eMOD_M_STATE_PROCESSED
                /\ mstack.opCode = MODBUS_OPCODE_READ_OUT_REGS =>
                        \A i \in 0..(n - 1) : regBuf[i] = GetReg(U16(first + i)).v

\* C9: for a frame in hand whose first byte is the station address, of at
\* least 4 bytes and with a valid CRC, ModSlaveCheck calls the send function
\* exactly once with a frame ending in its own CRC and leaves the status
\* Transmitting; and the status is not Processing when ModSlaveCheck has
\* returned.
C9_UnicastReply ==
    /\ (sOut.op = "Check" /\ ~sHung) => sstack.status # eMOD_S_STATE_PROCESSING
    /\ sstack.status = eMOD_S_STATE_RECEIVED =>
        LET f == FrameInHand(sstack.message, sstack.messageLast)
        IN  (f[1] = sstack.address /\ Len(f) >= 4 /\ CrcValid(f)) =>
                \A stale \in StaleMemories, pkt \in GetPacketResults, sendRet \in SendResults :
                    LET r == ModSlaveCheck(sstack, stale, pkt, sendRet, 0)
                        sends == {k \in DOMAIN r.calls : r.calls[k].fn = "pfSendAns"}
                    IN  /\ ~r.hung
                        /\ Cardinality(sends) = 1
                        /\ \A k \in sends : CrcValid(r.calls[k].data)
                        /\ r.ss.status = eMOD_S_STATE_TRANSMITTING

\* the registers a write-multiple frame f names, when f is a valid write the
\* application accepts: count 1..123, byte count and length to match, range
\* within lastReg
ValidWrite(f, lastReg) ==
    /\ f[2] = MODBUS_OPCODE_WRITE_MULTI_REGS
    /\ Len(f) >= 9
    /\ f[5] = 0 /\ f[6] >= 1 /\ f[6] <= MaxWriteRegs
    /\ f[7] = 2 * f[6]
    /\ Len(f) = 9 + 2 * f[6]
    /\ 256 * f[3] + f[4] + f[6] - 1 <= lastReg
    /\ \A t \in 0..(f[6] - 1) : 256 * f[3] + f[4] + t \notin FaultyRegs

\* C10: for a frame in hand whose first byte is 0, of valid length and CRC,
\* ModSlaveCheck executes the command (a valid write-multiple calls set_reg once
\* per register with the frame's values), does not call the send function and
\* leaves the status Standby, also when the command is faulty.
C10_Broadcast ==
    sstack.status = eMOD_S_STATE_RECEIVED =>
        LET f == FrameInHand(sstack.message, sstack.messageLast)
        IN  (f[1] = 0 /\ Len(f) >= 4 /\ CrcValid(f)) =>
                \A stale \in StaleMemories, pkt \in GetPacketResults, sendRet \in SendResults :
                    LET r == ModSlaveCheck(sstack, stale, pkt, sendRet, 0)
                    IN  /\ ~r.hung
                        /\ \A k \in DOMAIN r.calls : r.calls[k].fn # "pfSendAns"
                        /\ r.ss.status = eMOD_S_STATE_STANDBY
                        /\ ValidWrite(f, sstack.lastReg) =>
                                r.calls = <<[fn |-> "pfSetReg", first |-> 256 * f[3] + f[4],
                                             vals |-> [t \in 1..f[6] |->
                                                256 * f[6 + 2 * t] + f[7 + 2 * t]]]>>

\* C11: for a frame in hand whose first byte is neither the station address nor
\* 0, whatever its length and CRC, ModSlaveCheck returns 0, leaves the status
\* Standby and calls none of get_reg, set_reg, get_packet, set_packet and the
\* send function.
C11_AddressFilter ==
    sstack.status = eMOD_S_STATE_RECEIVED =>
        LET f == FrameInHand(sstack.message, sstack.messageLast)
        IN  (f[1] # sstack.address /\ f[1] # 0) =>
                \A stale \in StaleMemories, pkt \in GetPacketResults, sendRet \in SendResults :
                    LET r == ModSlaveCheck(sstack, stale, pkt, sendRet, 0)
                    IN  /\ r.retval = 0
                        /\ r.ss.status = eMOD_S_STATE_STANDBY
                        /\ r.calls = <<>>
                        /\ ~r.hung

\* a poll dropped a write-multiple of valid CRC addressed to another station
C11_Witness ==
    /\ sOut.op = "Check"
    /\ sOut.retval = 0
    /\ sOut.calls = <<>>
    /\ sOut.writes = <<eMOD_S_STATE_PROCESSING, eMOD_S_STATE_STANDBY>>
    /\ sstack.status = eMOD_S_STATE_STANDBY
    /\ sstack.message[0] = U8(sstack.address + 1)
    /\ sstack.message[1] = MODBUS_OPCODE_WRITE_MULTI_REGS
    /\ CrcValid(FrameInHand(sstack.message, sstack.messageLast))

\* the frame the send function was given by the calls cs; <<>> if it was not called
Sent(cs) ==
    IF cs # <<>> /\ cs[Len(cs)].fn = "pfSendAns" THEN cs[Len(cs)].data ELSE <<>>
\* the application calls among cs: all but the send
AppCalls(cs) ==
    IF cs # <<>> /\ cs[Len(cs)].fn = "pfSendAns" THEN SubSeq(cs, 1, Len(cs) - 1) ELSE cs

\* C12: for a unicast read-registers frame (0x03 or 0x04) of valid CRC the reply
\* is the exception ILLEGAL_VALUE if the body is not 4 bytes or the count is
\* not in 1..125; else the exception ILLEGAL_ADDRESS if start + count - 1 is
\* above lastReg or above 0xFFFF; else get_reg is called register by register
\* and the reply is the exception with the first non-zero code returned, no
\* get_reg call following it; else the reply is address, function, 2 * count
\* and the count values, high byte first.
C12_ReadValidation ==
    sstack.status = eMOD_S_STATE_RECEIVED =>
        LET f == FrameInHand(sstack.message, sstack.messageLast)
        IN  (/\ f[1] = sstack.address /\ Len(f) >= 4 /\ CrcValid(f)
             /\ f[2] \in {MODBUS_OPCODE_READ_OUT_REGS, MODBUS_OPCODE_READ_INP_REGS}) =>
                LET r == ModSlaveCheck(sstack, ZeroMessage, [r |-> 0, len |-> 0], 0, 0)
                    start == 256 * f[3] + f[4]
                    count == 256 * f[5] + f[6]
                    faults == {k \in 0..(count - 1) : GetReg(start + k).r # 0}
                    Exception(code) == Sent(r.calls) = WithCrc(<<f[1], f[2] + 128, code>>)
                IN  /\ ~r.hung
                    /\ IF Len(f) - 4 # 4 \/ count < 1 \/ count > MaxReadRegs
                       THEN AppCalls(r.calls) = <<>> /\ Exception(MODBUS_ERR_ILLEGAL_VALUE)
                       ELSE IF start + count - 1 > sstack.lastReg \/ start + count - 1 > 65535
                       THEN AppCalls(r.calls) = <<>> /\ Exception(MODBUS_ERR_ILLEGAL_ADDRESS)
                       ELSE IF faults # {}
                       THEN /\ AppCalls(r.calls) = <<[fn |-> "pfGetReg", first |-> start,
                                                      count |-> Least(faults) + 1]>>
                            /\ Exception(GetReg(start + Least(faults)).r)
                       ELSE /\ AppCalls(r.calls) = <<[fn |-> "pfGetReg", first |-> start,
                                                      count |-> count]>>
                            /\ Sent(r.calls) = WithCrc(<<f[1], f[2], 2 * count>> \o
                                    [k \in 1..(2 * count) |->
                                        IF k % 2 = 1 THEN HiByte(GetReg(start + (k - 1) \div 2).v)
                                        ELSE LoByte(GetReg(start + (k - 1) \div 2).v)])

\* C13: for a write-multiple frame (0x10) of valid CRC, unicast or broadcast,
\* set_reg is called only if the count is in 1..123, the byte count is
\* 2 * count, the frame without its CRC has 7 + 2 * count bytes and
\* start + count - 1 is within lastReg and 0xFFFF; it is then called for
\* start, start + 1, ... with the big-endian words of the frame, up to and
\* including the first call that returns a non-zero code, which is the code of
\* the exception reply; if no call fails the reply to a unicast frame is the
\* first 6 bytes of the request and their CRC.
C13_WriteMultiple ==
    sstack.status = eMOD_S_STATE_RECEIVED =>
        LET f == FrameInHand(sstack.message, sstack.messageLast)
        IN  (/\ f[1] \in {sstack.address, 0} /\ Len(f) >= 4 /\ CrcValid(f)
             /\ f[2] = MODBUS_OPCODE_WRITE_MULTI_REGS) =>
                \A stale \in StaleMemories :
                    LET r == ModSlaveCheck(sstack, stale, [r |-> 0, len |-> 0], 0, 0)
                        start == 256 * f[3] + f[4]
                        count == 256 * f[5] + f[6]
                        val(k) == 256 * f[8 + 2 * k] + f[9 + 2 * k]
                        valid == /\ Len(f) >= 9
                                 /\ count >= 1 /\ count <= MaxWriteRegs
                                 /\ f[7] = 2 * count
                                 /\ Len(f) - 2 = 7 + 2 * count
                                 /\ start + count - 1 <= sstack.lastReg
                                 /\ start + count - 1 <= 65535
                        faults == {k \in 0..(count - 1) : SetReg(start + k, val(k)) # 0}
                        calls(n) == <<[fn |-> "pfSetReg", first |-> start,
                                       vals |-> [t \in 1..n |-> val(t - 1)]]>>
                    IN  /\ ~r.hung
                        /\ IF ~valid
                           THEN AppCalls(r.calls) = <<>>
                           ELSE IF faults # {}
                           THEN /\ AppCalls(r.calls) = calls(Least(faults) + 1)
                                /\ f[1] # 0 =>
                                     Sent(r.calls) = WithCrc(<<f[1], f[2] + 128,
                                        SetReg(start + Least(faults), val(Least(faults)))>>)
                           ELSE /\ AppCalls(r.calls) = calls(count)
                                /\ f[1] # 0 => Sent(r.calls) = WithCrc(SubSeq(f, 1, 6))

\* C14: whenever a unicast request of valid CRC, of any function code, is
\* answered by an exception, the frame handed to the send function has 5
\* bytes: the station address, the request's function code with bit 7 set, the
\* exception code and the CRC of those three.
C14_ExceptionEncoding ==
    sstack.status = eMOD_S_STATE_RECEIVED =>
        LET f == FrameInHand(sstack.message, sstack.messageLast)
        IN  (f[1] = sstack.address /\ Len(f) >= 4 /\ CrcValid(f)) =>
                \A stale \in StaleMemories, pkt \in GetPacketResults :
                    LET r == ModSlaveCheck(sstack, stale, pkt, 0, 0)
                        s == Sent(r.calls)
                    IN  (r.retval = -1 /\ s # <<>>) =>
                            /\ Len(s) = 5
                            /\ s[1] = f[1]
                            /\ s[2] = (IF f[2] >= 128 THEN f[2] ELSE f[2] + 128)
                            /\ s[3] \in {MODBUS_ERR_ILLEGAL_OPCODE, MODBUS_ERR_ILLEGAL_ADDRESS,
                                         MODBUS_ERR_ILLEGAL_VALUE, MODBUS_ERR_DEVICE_FAULT}
                            /\ CrcValid(s)

\* C15: in every reachable state of the master and of the slave messageLast
\* is in 0..256; messageLast is the index the engines store through
\* (message[++messageLast]), so no store into message goes past message[256].
C15_MessageLastRange ==
    /\ mstack.messageLast \in 0..(MessageSize - 1)
    /\ sstack.messageLast \in 0..(MessageSize - 1)
    /\ DOMAIN mstack.message = 0..(MessageSize - 1)
    /\ DOMAIN sstack.message = 0..(MessageSize - 1)

\* C16: in both engines, whenever the status is Received while the rx-done
\* callback that stored it is under way or has just returned, messageLast and
\* message hold the whole frame that callback was given: the callback stores
\* messageLast and the bytes before it stores Received, so a poll that runs
\* between two of its statements does not parse an earlier length or earlier
\* bytes.
C16_PublicationOrder ==
    /\ (/\ mOut.op = "RxDone"
         /\ \E k \in DOMAIN mOut.writes : mOut.writes[k] = eMOD_M_STATE_RECEIVED
         /\ mstack.status = eMOD_M_STATE_RECEIVED) =>
            FrameInHand(mstack.message, mstack.messageLast) = mOut.frame
    /\ (/\ sOut.op = "RxDone"
         /\ \E k \in DOMAIN sOut.writes : sOut.writes[k] = eMOD_S_STATE_RECEIVED
         /\ sstack.status = eMOD_S_STATE_RECEIVED) =>
            FrameInHand(sstack.message, sstack.messageLast) = sOut.frame

\* the status changes of the master's state graph
MasterGraph ==
    {<<eMOD_M_STATE_STANDBY, eMOD_M_STATE_TRANSMITTING>>,
     <<eMOD_M_STATE_TRANSMITTING, eMOD_M_STATE_WAITING_ANSWER>>,
     <<eMOD_M_STATE_TRANSMITTING, eMOD_M_STATE_HW_ERROR>>,
     <<eMOD_M_STATE_WAITING_ANSWER, eMOD_M_STATE_RECEIVED>>,
     <<eMOD_M_STATE_WAITING_ANSWER, eMOD_M_STATE_CORRUPTED>>,
     <<eMOD_M_STATE_WAITING_ANSWER, eMOD_M_STATE_STANDBY>>,
     <<eMOD_M_STATE_RECEIVED, eMOD_M_STATE_PROCESSING>>,
     <<eMOD_M_STATE_PROCESSING, eMOD_M_STATE_CORRUPTED>>,
     <<eMOD_M_STATE_PROCESSING, eMOD_M_STATE_ERR_REPORTED>>,
     <<eMOD_M_STATE_PROCESSING, eMOD_M_STATE_PROCESSED>>,
     <<eMOD_M_STATE_CORRUPTED, eMOD_M_STATE_STANDBY>>,
     <<eMOD_M_STATE_ERR_REPORTED, eMOD_M_STATE_STANDBY>>,
     <<eMOD_M_STATE_PROCESSED, eMOD_M_STATE_STANDBY>>,
     <<eMOD_M_STATE_HW_ERROR, eMOD_M_STATE_STANDBY>>}

\* the status changes of the slave's state graph
SlaveGraph ==
    {<<eMOD_S_STATE_STANDBY, eMOD_S_STATE_RECEIVING>>,
     <<eMOD_S_STATE_RECEIVING, eMOD_S_STATE_RECEIVED>>,
     <<eMOD_S_STATE_RECEIVING, eMOD_S_STATE_STANDBY>>,
     <<eMOD_S_STATE_RECEIVED, eMOD_S_STATE_PROCESSING>>,
     <<eMOD_S_STATE_PROCESSING, eMOD_S_STATE_TRANSMITTING>>,
     <<eMOD_S_STATE_PROCESSING, eMOD_S_STATE_STANDBY>>,
     <<eMOD_S_STATE_TRANSMITTING, eMOD_S_STATE_STANDBY>>}

\* the values a step stored into the status field, in order: what the call
\* recorded in out2 beyond what out1 already held
NewWrites(out1, out2) ==
    IF out2.op = None THEN <<>>
    ELSE IF out1.op = None THEN out2.writes
    ELSE SubSeq(out2.writes, Len(out1.writes) + 1, Len(out2.writes))

\* every change of value along the chain is an edge of the graph
FollowsGraph(graph, chain) ==
    \A k \in 1..(Len(chain) - 1) :
        chain[k] = chain[k + 1] \/ <<chain[k], chain[k + 1]>> \in graph

\* C17: every store into the status field, of either engine and in every
\* interleaving of calls and callbacks, either leaves the value as it was or
\* follows an edge of the engine's state graph: no state is skipped and no
\* other change occurs.
C17_StatusGraph ==
    [][/\ FollowsGraph(MasterGraph, <<mstack.status>> \o NewWrites(mOut, mOut')
                                        \o <<mstack'.status>>)
       /\ FollowsGraph(SlaveGraph, <<sstack.status>> \o NewWrites(sOut, sOut')
                                        \o <<sstack'.status>>)]_vars

\* C18: a failing driver shows as HwError.  A request whose pfSend fails
\* returns -3 and leaves the status HwError; a tx-done whose pfReceive fails
\* leaves the status HwError; and from HwError the next ModMasterCheck returns
\* done with lastStatus HwError and stores Standby, whether or not an rx-done
\* or rx-error callback arrives before it.
C18_DriverFailure ==
    /\ \A req \in ReadRequests :
            LET r == ModMasterReadRegs(mstack, req, -1)
            IN  r.calls # <<>> =>
                    r.retval = -3 /\ r.ms.status = eMOD_M_STATE_HW_ERROR
    /\ \A req \in WriteRequests :
            LET r == ModMasterWriteRegs(mstack, req, -1)
            IN  r.calls # <<>> =>
                    r.retval = -3 /\ r.ms.status = eMOD_M_STATE_HW_ERROR
    /\ LET r == ModMasterTxDoneCallback(mstack, -1, now)
       IN  r.calls # <<>> => r.ms.status = eMOD_M_STATE_HW_ERROR
    /\ mstack.status = eMOD_M_STATE_HW_ERROR =>
            \A m \in {mstack, ModMasterRxErrorCallback(mstack).ms}
                        \cup {ModMasterRxDoneCallback(mstack, msg, Len(msg)).ms :
                                    msg \in MasterRxFrames(mstack)},
               errPtr \in ErrPtrs :
                LET c == ModMasterCheck(m, regBuf, now, errPtr)
                IN  /\ c.retval = 1
                    /\ c.lastStatus = eMOD_M_STATE_HW_ERROR
                    /\ c.ms.status = eMOD_M_STATE_STANDBY

\* ModMasterCheck has just reported a driver failure
C18_Witness ==
    /\ mOut.op = "Check"
    /\ mOut.retval = 1
    /\ mOut.lastStatus = eMOD_M_STATE_HW_ERROR
    /\ mOut.writes = <<eMOD_M_STATE_STANDBY>>
    /\ mstack.status = eMOD_M_STATE_STANDBY

\* the tx-done callback has acted on an accepted request
TxDoneFired == mOut.op = "TxDone" /\ mOut.calls # <<>>

\* ModMasterCheck has returned done with an outcome other than Standby
ReportedDone(out) ==
    IF out.op = "Check"
    THEN out.retval = 1 /\ out.lastStatus # eMOD_M_STATE_STANDBY
    ELSE FALSE

\* C19: once a request has been accepted and tx-done has fired, polling
\* ModMasterCheck for ever while the time source advances leads to a poll
\* that returns done with an outcome other than Standby and leaves the status
\* Standby, whether or not an rx callback arrives; WaitingAnswer does not
\* persist.  Done is reported once per transaction: a poll reports it only
\* for a request that is pending, the status is Standby afterwards, and only
\* a new request takes the status out of Standby.
C19_MasterLiveness ==
    /\ TxDoneFired ~> (ReportedDone(mOut) /\ mstack.status = eMOD_M_STATE_STANDBY)
    /\ (mstack.status = eMOD_M_STATE_WAITING_ANSWER) ~>
            (mstack.status # eMOD_M_STATE_WAITING_ANSWER)
    /\ [][/\ (mOut.op = None /\ ReportedDone(mOut')) =>
                /\ mstack.status \notin {eMOD_M_STATE_STANDBY, eMOD_M_STATE_TRANSMITTING}
                /\ mstack'.status = eMOD_M_STATE_STANDBY
          /\ (mstack.status = eMOD_M_STATE_STANDBY
                /\ mstack'.status # eMOD_M_STATE_STANDBY) =>
                    mOut'.op \in {"ReadRegs", "WriteRegs"}]_vars

\* a poll has reported the timeout of a transaction whose timer was started
\* before the time source wrapped
C19_Witness ==
    /\ ReportedDone(mOut)
    /\ mOut.lastStatus = eMOD_M_STATE_TIMED_OUT
    /\ mstack.status = eMOD_M_STATE_STANDBY
    /\ mstack.rxStartTime = <<65535, 65486>>
    /\ now[1] < 65535

\* ModMasterCheck called again right after the poll recorded in mOut, d ms
\* later and with nothing else in between
SecondCheck(d, errPtr) == ModMasterCheck(mstack, regBuf, TimeAdd(now, d), errPtr)

\* the second of two polls returns what the first returned and changes nothing
SameVerdict(c2) == c2.retval = mOut.retval /\ c2.ms = mstack /\ c2.buf = regBuf

\* the timeout expired between the two polls
TimeoutBetween(d, c2) ==
    /\ d > 0
    /\ mOut.lastStatus = eMOD_M_STATE_WAITING_ANSWER
    /\ c2.lastStatus = eMOD_M_STATE_TIMED_OUT

\* C20 as stated: two polls in succession return the same value, and neither
\* changes the status unless it is the poll that reports the timeout.
C20_IdempotentDrain ==
    mOut.op = "Check" =>
        /\ mOut.writes # <<>> => mOut.lastStatus = eMOD_M_STATE_TIMED_OUT
        /\ \A d \in {0} \cup CoarseSteps, errPtr \in ErrPtrs :
                LET c2 == SecondCheck(d, errPtr)
                IN  SameVerdict(c2) \/ TimeoutBetween(d, c2)

\* C20, amended: two polls in succession return the same value and the second
\* changes nothing, unless the timeout expires between them.  The first
\* changes the status exactly when it returns done for a transaction, on a
\* timeout, a corrupted, reported or processed answer or a driver failure,
\* and then to Standby; after a poll that returned done the status is
\* Standby.
C20_DrainOnce ==
    mOut.op = "Check" =>
        /\ mOut.writes # <<>> <=>
                (/\ mOut.retval = 1
                 /\ mOut.lastStatus \in
                        {eMOD_M_STATE_TIMED_OUT, eMOD_M_STATE_CORRUPTED,
                         eMOD_M_STATE_ERR_REPORTED, eMOD_M_STATE_PROCESSED,
                         eMOD_M_STATE_HW_ERROR})
        /\ mOut.retval = 1 => mstack.status = eMOD_M_STATE_STANDBY
        /\ \A d \in {0} \cup CoarseSteps, errPtr \in ErrPtrs :
                LET c2 == SecondCheck(d, errPtr)
                IN  SameVerdict(c2) \/ TimeoutBetween(d, c2)

\* a poll has drained a processed answer: the status went from Received to
\* Standby without a timeout
C20_Witness ==
    /\ mOut.op = "Check"
    /\ mOut.retval = 1
    /\ mOut.lastStatus = eMOD_M_STATE_PROCESSED
    /\ mOut.writes # <<>>
    /\ mstack.status = eMOD_M_STATE_STANDBY
    /\ SecondCheck(0, NULL).retval = 1

\* C21: when pfSendAns returns an error, ModSlaveCheck returns that error and
\* leaves the status Transmitting; in Transmitting a further ModSlaveCheck, an
\* rx-done and an rx-error change nothing and call nothing, and tx-done stores
\* Standby.
C21_TransmitFault ==
    /\ (sstack.status = eMOD_S_STATE_RECEIVED /\ ~sHung) =>
            \A stale \in StaleFor(sstack), pkt \in PacketsFor(sstack), sendRet \in {-1, -7} :
                LET r == ModSlaveCheck(sstack, stale, pkt, sendRet, 0)
                IN  (~r.hung /\ Sent(r.calls) # <<>>) =>
                        /\ r.retval = sendRet
                        /\ r.ss.status = eMOD_S_STATE_TRANSMITTING
    /\ sstack.status = eMOD_S_STATE_TRANSMITTING =>
            /\ \A sendRet \in SendResults, standbyRet \in StandbyResults :
                    LET r == ModSlaveCheck(sstack, ZeroMessage, [r |-> 0, len |-> 0],
                                           sendRet, standbyRet)
                    IN  r.ss = sstack /\ r.calls = <<>> /\ r.retval = 0
            /\ \A msg \in SlaveRxFrames(sstack) :
                    LET r == ModSlaveRxDoneCallback(sstack, msg, Len(msg))
                    IN  r.ss = sstack /\ r.calls = <<>>
            /\ ModSlaveRxErrorCallback(sstack).ss = sstack
            /\ ModSlaveTxDoneCallback(sstack).ss.status = eMOD_S_STATE_STANDBY

\* a poll has given the reply to a send function that failed
C21_Witness ==
    /\ sOut.op = "Check"
    /\ Sent(sOut.calls) # <<>>
    /\ sOut.retval = -1
    /\ line = "idle"
    /\ sstack.status = eMOD_S_STATE_TRANSMITTING

\* C22: set_packet is called only with a payload length in 1..251, and every
\* read-packet reply sent carries a payload length in 1..251 and that many
\* payload bytes; a get_packet result longer than 251 gives the exception
\* DEVICE_FAULT, and a read-packet request with bytes after the function code
\* gives an exception without a call of get_packet.
C22_PacketBounds ==
    /\ sOut.op = "Check" =>
            /\ \A k \in DOMAIN sOut.calls :
                    sOut.calls[k].fn = "pfSetPacket" => sOut.calls[k].length \in 1..251
            /\ LET s == Sent(sOut.calls)
               IN  (Len(s) >= 3 /\ s[2] = MODBUS_OPCODE_READ_DATA_PACKET) =>
                        s[3] \in 1..251 /\ Len(s) = s[3] + 5
    /\ sstack.status = eMOD_S_STATE_RECEIVED =>
            LET f == FrameInHand(sstack.message, sstack.messageLast)
            IN  (/\ f[1] = sstack.address /\ Len(f) >= 4 /\ CrcValid(f)
                 /\ f[2] = MODBUS_OPCODE_READ_DATA_PACKET) =>
                    \A pkt \in GetPacketResults :
                        LET r == ModSlaveCheck(sstack, ZeroMessage, pkt, 0, 0)
                            Exception(code) ==
                                Sent(r.calls) = WithCrc(<<f[1], f[2] + 128, code>>)
                        IN  /\ Len(f) > 4 =>
                                /\ AppCalls(r.calls) = <<>>
                                /\ Exception(MODBUS_ERR_ILLEGAL_VALUE)
                            /\ (Len(f) = 4 /\ pkt.r = 0 /\ pkt.len > 251) =>
                                Exception(MODBUS_ERR_DEVICE_FAULT)

\* frame f with bit k (0..15) of its trailing 16-bit word inverted: bit 0..7 in
\* the last byte but one, bit 8..15 in the last byte
Pow2(k) == IF k = 0 THEN 1 ELSE IF k = 1 THEN 2 ELSE IF k = 2 THEN 4
           ELSE IF k = 3 THEN 8 ELSE IF k = 4 THEN 16 ELSE IF k = 5 THEN 32
           ELSE IF k = 6 THEN 64 ELSE 128
FlipTrailer(message, messageLast, k) ==
    IF k < 8
    THEN [message EXCEPT ![messageLast - 1] = ToggleBit(@, Pow2(k))]
    ELSE [message EXCEPT ![messageLast] = ToggleBit(@, Pow2(k - 8))]
\* the master's parser took the CRC of the frame in ms: the poll reports what
\* ModMasterProcessAnswer makes of the frame without its last two bytes
MasterCrcPassed(ms, r) ==
    LET p == ModMasterProcessAnswer([ms EXCEPT !.messageLast = ms.messageLast - 2], regBuf)
    IN  r.lastStatus = p.ms.status /\ r.buf = p.buf
\* the slave's parser refused the frame: error return, Standby, nothing called
SlaveRefused(r) ==
    /\ r.retval = -1
    /\ r.ss.status = eMOD_S_STATE_STANDBY
    /\ r.calls = <<>>
    /\ ~r.hung
\* the parsers take a frame of n bytes that carries the right address and the
\* CRC of its first n - 2 bytes, and refuse it with any one bit of the CRC
\* inverted: n in lens
CrcDecides(lens) ==
    /\ mstack.status = eMOD_M_STATE_RECEIVED =>
            LET f == FrameInHand(mstack.message, mstack.messageLast)
            IN  (Len(f) \in lens /\ f[1] = mstack.slaveAddr /\ CrcValid(f)) =>
                    /\ MasterCrcPassed(mstack, ModMasterCheck(mstack, regBuf, now, NULL))
                    /\ \A k \in 0..15 :
                        LET m1 == [mstack EXCEPT !.message =
                                        FlipTrailer(@, mstack.messageLast, k)]
                            r1 == ModMasterCheck(m1, regBuf, now, NULL)
                        IN  /\ r1.lastStatus = eMOD_M_STATE_CORRUPTED
                            /\ r1.buf = regBuf
    /\ sstack.status = eMOD_S_STATE_RECEIVED =>
            LET f == FrameInHand(sstack.message, sstack.messageLast)
            IN  (Len(f) \in lens /\ f[1] \in {sstack.address, 0} /\ CrcValid(f)) =>
                    \A stale \in StaleFor(sstack), pkt \in PacketsFor(sstack) :
                        /\ ~SlaveRefused(ModSlaveCheck(sstack, stale, pkt, 0, 0))
                        /\ \A k \in 0..15 :
                            LET s1 == [sstack EXCEPT !.message =
                                            FlipTrailer(@, sstack.messageLast, k)]
                            IN  SlaveRefused(ModSlaveCheck(s1, stale, pkt, 0, 0))

\* C23: for every byte sequence of 0..253 bytes that starts with the address
\* the parser expects, the frame made of the sequence and its CrcModbus (seed
\* 0xFFFF), low byte then high byte, passes the CRC check of the master's and of
\* the slave's parser, and the frame with any bit of those two bytes changed is
\* rejected: Corrupted at the master; Standby, error return and no callback at
\* the slave.
C23_CrcRoundTrip == CrcDecides(2..(MaxRxLen - 2))

\* C23, as the code has it: the same for sequences of 2..255 bytes, that is
\* frames of 4..257 bytes; a shorter frame is refused before its CRC is looked
\* at.
C23_CrcCheck ==
    /\ CrcDecides(4..MaxRxLen)
    /\ mstack.status = eMOD_M_STATE_RECEIVED /\ mstack.messageLast < 3 =>
            ModMasterCheck(mstack, regBuf, now, NULL).lastStatus = eMOD_M_STATE_CORRUPTED
    /\ (sstack.status = eMOD_S_STATE_RECEIVED /\ sstack.messageLast < 3
            /\ sstack.message[0] \in {sstack.address, 0}) =>
            \A stale \in StaleFor(sstack), pkt \in PacketsFor(sstack) :
                SlaveRefused(ModSlaveCheck(sstack, stale, pkt, 0, 0))

\* both parsers have taken a frame of 255 bytes: a sequence of 253 and its CRC
C23_Witness ==
    /\ mOut.op = "Check"
    /\ mstack.messageLast = MaxRxLen - 5
    /\ CrcValid(FrameInHand(mstack.message, mstack.messageLast + 2))
    /\ sstack.status = eMOD_S_STATE_TRANSMITTING
    /\ sstack.message[1] = MODBUS_OPCODE_DIAGNOSTIC
    /\ sstack.messageLast = MaxRxLen - 3

\* the read of registers 0x006B and 0x006C of station 0x11, whose get_reg
\* returns 0x000A and 0x000B: the master hands request to its send function,
\* the slave answers a request of that body with reply, and on the reply of
\* that body the master reports Processed with the buffer holding 0x000A, 0x000B
ReadScenario(request, reply) ==
    LET asked == /\ mstack.slaveAddr = 17
                 /\ mstack.opCode = MODBUS_OPCODE_READ_OUT_REGS
                 /\ mstack.firstReg = 107
                 /\ mstack.numRegs = 2
    IN  /\ (mOut.op = "ReadRegs" /\ mOut.retval = 0 /\ asked) =>
                mOut.calls = <<[fn |-> "pfSend", data |-> request, length |-> Len(request)]>>
        /\ sstack.status = eMOD_S_STATE_RECEIVED =>
                LET f == FrameInHand(sstack.message, sstack.messageLast)
                IN  (/\ sstack.address = 17
                     /\ Len(f) = 8
                     /\ SubSeq(f, 1, 6) = SubSeq(request, 1, 6)
                     /\ CrcValid(f)) =>
                        LET r == ModSlaveCheck(sstack, ZeroMessage, [r |-> 0, len |-> 0], 0, 0)
                        IN  /\ AppCalls(r.calls) =
                                    <<[fn |-> "pfGetReg", first |-> 107, count |-> 2]>>
                            /\ Sent(r.calls) = reply
        /\ (mstack.status = eMOD_M_STATE_RECEIVED /\ asked) =>
                LET f == FrameInHand(mstack.message, mstack.messageLast)
                IN  (Len(f) = 9 /\ SubSeq(f, 1, 7) = SubSeq(reply, 1, 7) /\ CrcValid(f)) =>
                        LET c == ModMasterCheck(mstack, regBuf, now, NULL)
                        IN  /\ f = reply
                            /\ c.retval = 1
                            /\ c.lastStatus = eMOD_M_STATE_PROCESSED
                            /\ c.buf[0] = 10 /\ c.buf[1] = 11

\* C24: ModMasterReadRegs(slave 0x11, first 0x006B, num 2) passes exactly the
\* 8 bytes 11 03 00 6B 00 02 76 87 to the send function; the slave at 0x11
\* whose get_reg returns 0x000A and 0x000B replies with exactly
\* 11 03 04 00 0A 00 0B 97 E3; on that reply the master reports Processed with
\* reg_buffer = [0x000A, 0x000B].
C24_ReadScenario ==
    ReadScenario(<<17, 3, 0, 107, 0, 2, 118, 135>>, <<17, 3, 4, 0, 10, 0, 11, 151, 227>>)

\* C24 with the CRC bytes CrcModbus gives: the request is
\* 11 03 00 6B 00 02 B7 47 and the reply 11 03 04 00 0A 00 0B 8A 37.
C24_ReadScenarioCrc ==
    ReadScenario(<<17, 3, 0, 107, 0, 2, 183, 71>>, <<17, 3, 4, 0, 10, 0, 11, 138, 55>>)

\* the master has read 0x000A and 0x000B from the reply the slave sent
C24_Witness ==
    /\ mOut.op = "Check"
    /\ mOut.lastStatus = eMOD_M_STATE_PROCESSED
    /\ mstack.slaveAddr = 17 /\ mstack.firstReg = 107 /\ mstack.numRegs = 2
    /\ regBuf[0] = 10 /\ regBuf[1] = 11
    /\ sstack.address = 17
    /\ Bytes(sstack.message, 9) = <<17, 3, 4, 0, 10, 0, 11, 138, 55>>
    /\ Bytes(mstack.message, 7) = <<17, 3, 4, 0, 10, 0, 11>>

\* C25: ModSlaveCheck called in Standby stores Receiving and calls the standby
\* function exactly once, returning what it returned; called in Receiving,
\* Processing or Transmitting it calls nothing and changes nothing; in no
\* status other than Standby does it call the standby function, and the call
\* leaves Standby, so the standby function is called at most once per entry
\* into Standby.
C25_PollArming ==
    \A stale \in StaleFor(sstack), pkt \in PacketsFor(sstack),
       sendRet \in SendResults, standbyRet \in StandbyResults \cup {-7} :
        LET r == ModSlaveCheck(sstack, stale, pkt, sendRet, standbyRet)
            arms == {k \in DOMAIN r.calls : r.calls[k].fn = "pfStandby"}
        IN  ~sHung =>
            /\ sstack.status = eMOD_S_STATE_STANDBY =>
                    /\ r.ss = [sstack EXCEPT !.status = eMOD_S_STATE_RECEIVING]
                    /\ r.calls = <<[fn |-> "pfStandby"]>>
                    /\ r.retval = standbyRet
            /\ sstack.status \in {eMOD_S_STATE_RECEIVING, eMOD_S_STATE_PROCESSING,
                                  eMOD_S_STATE_TRANSMITTING} =>
                    /\ r.ss = sstack
                    /\ r.calls = <<>>
                    /\ r.retval = 0
            /\ sstack.status # eMOD_S_STATE_STANDBY => arms = {}

\* a poll in Standby has armed the receiver and returned the error of the
\* standby function
C25_Witness ==
    /\ sOut.op = "Check"
    /\ sOut.calls = <<[fn |-> "pfStandby"]>>
    /\ sOut.retval = -1
    /\ sOut.writes = <<eMOD_S_STATE_RECEIVING>>
    /\ sstack.status = eMOD_S_STATE_RECEIVING
    /\ sstack.messageLast > 0

\* C26: for every read or write-multiple frame that passes validation, also
\* one whose last register start + count - 1 is 0xFFFF at a station with
\* lastReg 0xFFFF, ModSlaveCheck returns, having called the register callback
\* for start, start + 1, ... in ascending order, each once and at most count
\* times in all.
C26_LoopTermination ==
    sstack.status = eMOD_S_STATE_RECEIVED =>
        LET f == FrameInHand(sstack.message, sstack.messageLast)
            start == 256 * f[3] + f[4]
            count == 256 * f[5] + f[6]
            inRange == start + count - 1 <= sstack.lastReg /\ start + count - 1 <= 65535
            validRead == /\ f[2] \in {MODBUS_OPCODE_READ_OUT_REGS, MODBUS_OPCODE_READ_INP_REGS}
                         /\ Len(f) = 8
                         /\ count >= 1 /\ count <= MaxReadRegs
                         /\ inRange
            validWrite == /\ f[2] = MODBUS_OPCODE_WRITE_MULTI_REGS
                          /\ Len(f) >= 9
                          /\ count >= 1 /\ count <= MaxWriteRegs
                          /\ f[7] = 2 * count
                          /\ Len(f) = 9 + 2 * count
                          /\ inRange
        IN  (/\ Len(f) >= 4 /\ f[1] \in {sstack.address, 0} /\ CrcValid(f)
             /\ validRead \/ validWrite) =>
                \A stale \in StaleMemories :
                    LET r == ModSlaveCheck(sstack, stale, [r |-> 0, len |-> 0], 0, 0)
                        app == AppCalls(r.calls)
                    IN  /\ ~r.hung
                        /\ Len(app) = 1
                        /\ app[1].first = start
                        /\ IF validRead
                           THEN app[1].fn = "pfGetReg" /\ app[1].count <= count
                           ELSE app[1].fn = "pfSetReg" /\ Len(app[1].vals) <= count

\* C27: in every interleaving of polls with the tx-done callback, whenever the
\* status is WaitingAnswer rxStartTime holds the time at which the tx-done
\* callback of the transaction under way armed the receiver, and a poll reports
\* TimedOut only if more than MODBUS_RX_TIMEOUT ms have passed since then.
C27_FreshTimestamp ==
    /\ mstack.status = eMOD_M_STATE_WAITING_ANSWER =>
            mstack.rxStartTime = TimeAdd(<<65535, 65486>>, armedAt)
    /\ (mOut.op \in {"Check", "TxDone"} /\ mOut.lastStatus = eMOD_M_STATE_TIMED_OUT) =>
            elapsed - armedAt > MODBUS_RX_TIMEOUT

\* C28: with ModSlaveCheck polled fairly, a standby and a send function that
\* succeed, and a driver that answers every arming with rx-done or rx-error and
\* every send with tx-done, the slave is in Standby again and again and arms
\* the receiver (Receiving) again and again, whatever frames of 0..257 bytes
\* it is given; from no state is Standby out of reach.
C28_SlaveLiveness ==
    /\ []<>(sstack.status = eMOD_S_STATE_STANDBY)
    /\ []<>(sstack.status = eMOD_S_STATE_RECEIVING)

\* C29: the caller's register buffer changes only in a ModMasterCheck that
\* reports Processed for a read transaction, and then only in its elements
\* 0..numRegs-1: a poll that reports TimedOut, Corrupted, ErrReported or
\* HwError, every poll of a write transaction, every request and every
\* hardware callback leave it as it was.
C29_BufferFrame ==
    [][regBuf' # regBuf =>
            /\ mOut'.op = "Check"
            /\ mOut'.lastStatus = eMOD_M_STATE_PROCESSED
            /\ mstack.status = eMOD_M_STATE_RECEIVED
            /\ mstack.opCode = MODBUS_OPCODE_READ_OUT_REGS
            /\ \A i \in DOMAIN regBuf : i >= mstack.numRegs => regBuf'[i] = regBuf[i]]_vars

\* a poll has stored the two registers of a read and left the third element
\* of the buffer as it was
C29_Witness ==
    /\ mOut.op = "Check"
    /\ mOut.lastStatus = eMOD_M_STATE_PROCESSED
    /\ mstack.opCode = MODBUS_OPCODE_READ_OUT_REGS
    /\ mstack.numRegs = 2
    /\ regBuf[0] = ReplyValue[0] /\ regBuf[1] = ReplyValue[1]
    /\ regBuf[2] = 0

\* the values of the status field a call of ModMasterCheck or a callback may
\* find
RestingStates ==
    {eMOD_M_STATE_STANDBY, eMOD_M_STATE_TRANSMITTING, eMOD_M_STATE_WAITING_ANSWER,
     eMOD_M_STATE_RECEIVED, eMOD_M_STATE_CORRUPTED, eMOD_M_STATE_HW_ERROR}

\* C30: whenever ModMasterCheck or a hardware callback is entered the status
\* is Standby, Transmitting, WaitingAnswer, Received, Corrupted or HwError.
\* Processing, ErrReported and Processed are stored only by a running
\* ModMasterCheck, which stores Standby before it returns; TimedOut is never
\* stored.  So the default branch of ModMasterCheck is never taken: a poll
\* that returns 0 has found Transmitting or WaitingAnswer and stored nothing.
C30_RestingStates ==
    /\ mstack.status \in RestingStates
    /\ \A k \in DOMAIN mOut.writes :
            /\ mOut.writes[k] # eMOD_M_STATE_TIMED_OUT
            /\ mOut.op # "Check" => mOut.writes[k] \in RestingStates
    /\ \A errPtr \in ErrPtrs :
            LET r == ModMasterCheck(mstack, regBuf, now, errPtr)
            IN  /\ r.ms.status \in RestingStates
                /\ r.retval = 0 =>
                        /\ r.lastStatus \in {eMOD_M_STATE_TRANSMITTING,
                                             eMOD_M_STATE_WAITING_ANSWER}
                        /\ r.writes = <<>>

\* a poll has gone through Processing and Processed and left Standby
C30_Witness ==
    /\ mOut.op = "Check"
    /\ mOut.writes = <<eMOD_M_STATE_PROCESSING, eMOD_M_STATE_PROCESSED,
                       eMOD_M_STATE_STANDBY>>
    /\ mstack.status = eMOD_M_STATE_STANDBY
    /\ mstack.opCode = MODBUS_OPCODE_WRITE_MULTI_REGS

=============================================================================
